---- MODULE Spec2Model ----
(***************************************************************************)
(* A model of rust-vnc: the RFB wire codec (protocol.rs), the client       *)
(* session with its event pump (client.rs), the client and server          *)
(* handshakes (client.rs, server.rs) and the proxy (lib.rs).               *)
(*                                                                         *)
(* Bytes are naturals 0..255.  A stream is a record [buf, end]: the bytes  *)
(* not yet read and what a read finds once they are used up ("open": the   *)
(* read blocks, "eof": the peer closed, "reset": any other I/O failure).   *)
(***************************************************************************)
EXTENDS Integers, Sequences, FiniteSets, TLC

VARIABLES
    codec_in,    \* codec harness: the operation and its input
    codec_out,   \* codec harness: what the operation produced
    s2c,         \* server-to-client stream as the pump sees it
    c2s_wire,    \* bytes the client has written to the socket
    conn_wr,     \* "ok" or "broken": whether a client write succeeds
    format,      \* Client.format: the shared Arc<Mutex<PixelFormat>>
    size,        \* Client.size
    queue,       \* the mpsc channel between pump and Client.events
    rx_alive,    \* the Receiver (the Client) has not been dropped
    pump,        \* the pump thread: pc, rectangles left, format snapshot, result
    caller,      \* the caller thread: pc, set_format argument and rect, last result
    sent,        \* history: every event the pump placed on the channel
    polled,      \* history: every event poll_event returned
    nsend,       \* number of messages the server has written
    hs,          \* Client::from_tcp_stream: position, locals, bytes written, history
    hs_in,       \* handshake: server-to-client stream as the client sees it
    srv,         \* Server::from_tcp_stream: position, arguments, locals, history
    srv_in,      \* handshake: client-to-server stream as the server sees it
    px,          \* Proxy: position in from_tcp_streams, bytes relayed, threads, join
    px_srv,      \* proxy: server-to-proxy stream
    px_cli,      \* proxy: client-to-proxy stream
    served       \* history: every builder Server::send_update has written

vars == <<codec_in, codec_out, s2c, c2s_wire, conn_wr, format, size, queue,
          rx_alive, pump, caller, sent, polled, nsend, hs, hs_in, srv, srv_in,
          px, px_srv, px_cli, served>>

codec_vars == <<codec_in, codec_out>>
session_vars == <<s2c, c2s_wire, conn_wr, format, size, queue, rx_alive, pump,
                  caller, sent, polled, nsend>>
hs_vars == <<hs, hs_in, srv, srv_in>>
px_vars == <<px, px_srv, px_cli>>
server_vars == <<served>>
\* what a step of one part of the model leaves alone
beside_session == <<codec_vars, hs_vars, px_vars, server_vars>>
beside_codec == <<session_vars, hs_vars, px_vars, server_vars>>
beside_hs == <<codec_vars, session_vars, px_vars, server_vars>>
beside_px == <<codec_vars, session_vars, hs_vars, server_vars>>
beside_server == <<codec_vars, hs_vars, px_vars>>

(***************************************************************************)
(* Bounds of the model.                                                    *)
(***************************************************************************)
MaxStrLen == 2      \* longest string drawn as a codec input
MaxList == 2        \* longest encoding / colour list drawn as a codec input
MaxRawLen == 3      \* longest arbitrary byte string fed to the readers
MaxSend == 2        \* messages the server writes in one session

(***************************************************************************)
(* Byte-level helpers: byteorder's BigEndian readers and writers.          *)
(***************************************************************************)
Take(b, n) == SubSeq(b, 1, n)
Drop(b, n) == SubSeq(b, n + 1, Len(b))

U8(n) == <<n % 256>>
U16(n) == <<(n \div 256) % 256, n % 256>>
\* TLC's integers have 32 bits: a u32 of 2^31 or more is held as its value
\* minus 2^32, which makes the u32 and the i32 codecs the same functions.
I32(n) ==
    LET m == IF n < 0 THEN (n + 2147483647) + 1 ELSE n
        top == IF n < 0 THEN 128 ELSE 0
    IN <<top + (m \div 16777216), (m \div 65536) % 256, (m \div 256) % 256, m % 256>>
U32(n) == I32(n)

GetU16(b) == b[1] * 256 + b[2]
GetI32(b) ==
    IF b[1] >= 128
    THEN (((b[1] - 128) * 16777216 + b[2] * 65536 + b[3] * 256 + b[4]) - 2147483647) - 1
    ELSE b[1] * 16777216 + b[2] * 65536 + b[3] * 256 + b[4]
GetU32(b) == GetI32(b)

Bool(x) == IF x THEN 1 ELSE 0
Zeros(n) == [i \in 1..n |-> 0]

(***************************************************************************)
(* The Error type and the results of a read.                               *)
(***************************************************************************)
NoErr == [kind |-> "none", what |-> ""]
Disconnected == [kind |-> "Disconnected", what |-> ""]
Unexpected(what) == [kind |-> "Unexpected", what |-> what]
WouldBlock == [kind |-> "WouldBlock", what |-> ""]
\* std::io::Error converted by try!: the kind of failure is kept in `what`
Io(what) == [kind |-> "Io", what |-> what]

NoVal == [type |-> "none"]
Stream(buf, end) == [buf |-> buf, end |-> end]
Ok(v, st) == [ok |-> TRUE, val |-> v, err |-> NoErr, rest |-> st]
Fail(e, st) == [ok |-> FALSE, val |-> NoVal, err |-> e, rest |-> st]

\* What a read finds when the buffered bytes do not suffice.
Starved(st) ==
    CASE st.end = "open" -> Fail(WouldBlock, st)
      [] st.end = "eof" -> Fail(Io("UnexpectedEof"), Stream(<<>>, st.end))
      [] OTHER -> Fail(Io("ConnectionReset"), Stream(<<>>, st.end))

\* Read::read_exact of n bytes, the result handed to try!
read_exact(st, n) ==
    IF n >= 0 /\ Len(st.buf) >= n
    THEN Ok([type |-> "bytes", bytes |-> Take(st.buf, n)], Stream(Drop(st.buf, n), st.end))
    ELSE Starved(st)

\* try!: go on with the value read and the rest of the stream, or return the error.
Then(r, F(_, _)) == IF r.ok THEN F(r.val, r.rest) ELSE r

(***************************************************************************)
(* protocol.rs: impl Message for String.  A String is modelled as its      *)
(* sequence of chars (code points); String::len is the UTF-8 byte length.  *)
(***************************************************************************)
utf8_len(c) == IF c < 128 THEN 1 ELSE IF c < 2048 THEN 2 ELSE IF c < 65536 THEN 3 ELSE 4

RECURSIVE str_len(_)
str_len(s) == IF s = <<>> THEN 0 ELSE utf8_len(Head(s)) + str_len(Tail(s))

String_read_from(st) ==
    Then(read_exact(st, 4), LAMBDA l, s1 :
    Then(read_exact(s1, GetU32(l.bytes)), LAMBDA b, s2 :
    \* string.iter().map(|c| *c as char).collect()
    Ok([type |-> "String", text |-> b.bytes], s2)))

String_write_to(s) ==
    \* self.len() as u32 (no string of the model reaches 2^32 bytes), then
    \* self.chars().map(|c| c as u8)
    U32(str_len(s)) \o [i \in 1..Len(s) |-> s[i] % 256]

(***************************************************************************)
(* protocol.rs: PixelFormat, Encoding, Colour.                             *)
(***************************************************************************)
PixelFormat_of(b) ==
    [bits_per_pixel |-> b[1], depth |-> b[2],
     big_endian |-> b[3] # 0, true_colour |-> b[4] # 0,
     red_max |-> GetU16(SubSeq(b, 5, 6)), green_max |-> GetU16(SubSeq(b, 7, 8)),
     blue_max |-> GetU16(SubSeq(b, 9, 10)),
     red_shift |-> b[11], green_shift |-> b[12], blue_shift |-> b[13]]

\* thirteen bytes of fields, then read_exact(&mut [0u8; 3])
PixelFormat_read_from(st) ==
    Then(read_exact(st, 16), LAMBDA r, s1 : Ok(PixelFormat_of(r.bytes), s1))

PixelFormat_write_to(f) ==
    U8(f.bits_per_pixel) \o U8(f.depth) \o U8(Bool(f.big_endian)) \o U8(Bool(f.true_colour))
    \o U16(f.red_max) \o U16(f.green_max) \o U16(f.blue_max)
    \o U8(f.red_shift) \o U8(f.green_shift) \o U8(f.blue_shift) \o Zeros(3)

Enc(name) == [name |-> name, n |-> 0]
EncUnknown(n) == [name |-> "Unknown", n |-> n]

Encoding_of(code) ==
    CASE code = 0 -> Enc("Raw")
      [] code = 1 -> Enc("CopyRect")
      [] code = 2 -> Enc("Rre")
      [] code = 5 -> Enc("Hextile")
      [] code = 16 -> Enc("Zrle")
      [] code = -239 -> Enc("Cursor")
      [] code = -223 -> Enc("DesktopSize")
      [] code = -258 -> Enc("ExtendedKeyEvent")
      [] OTHER -> EncUnknown(code)

Encoding_read_from(st) ==
    Then(read_exact(st, 4), LAMBDA r, s1 : Ok(Encoding_of(GetI32(r.bytes)), s1))

Encoding_write_to(e) ==
    I32(CASE e.name = "Raw" -> 0
          [] e.name = "CopyRect" -> 1
          [] e.name = "Rre" -> 2
          [] e.name = "Hextile" -> 5
          [] e.name = "Zrle" -> 16
          [] e.name = "Cursor" -> -239
          [] e.name = "DesktopSize" -> -223
          [] e.name = "ExtendedKeyEvent" -> -258
          [] OTHER -> e.n)

Colour_of(b) ==
    [red |-> GetU16(SubSeq(b, 1, 2)), green |-> GetU16(SubSeq(b, 3, 4)),
     blue |-> GetU16(SubSeq(b, 5, 6))]

Colour_read_from(st) ==
    Then(read_exact(st, 6), LAMBDA r, s1 : Ok(Colour_of(r.bytes), s1))

Colour_write_to(c) == U16(c.red) \o U16(c.green) \o U16(c.blue)

\* for _ in 0..count { list.push(try!(T::read_from(reader))) }
RECURSIVE read_encodings(_, _, _)
read_encodings(st, count, acc) ==
    IF count = 0 THEN Ok([type |-> "list", items |-> acc], st) ELSE
    Then(Encoding_read_from(st), LAMBDA e, s1 : read_encodings(s1, count - 1, Append(acc, e)))

RECURSIVE read_colours(_, _, _)
read_colours(st, count, acc) ==
    IF count = 0 THEN Ok([type |-> "list", items |-> acc], st) ELSE
    Then(Colour_read_from(st), LAMBDA c, s1 : read_colours(s1, count - 1, Append(acc, c)))

\* for item in list { try!(item.write_to(writer)) }
RECURSIVE write_encodings(_)
write_encodings(l) ==
    IF l = <<>> THEN <<>> ELSE Encoding_write_to(Head(l)) \o write_encodings(Tail(l))

RECURSIVE write_colours(_)
write_colours(l) ==
    IF l = <<>> THEN <<>> ELSE Colour_write_to(Head(l)) \o write_colours(Tail(l))

\* mutant: every failure to read the first byte is taken for a disconnect
read_message_type_any_failure(st) ==
    IF st.buf = <<>> /\ st.end # "open" THEN Fail(Disconnected, st) ELSE read_exact(st, 1)

\* The first byte of a message: UnexpectedEof there is Error::Disconnected,
\* any other failure goes through try!.
read_message_type(st) ==
    IF st.buf = <<>> /\ st.end = "eof"
    THEN Fail(Disconnected, st)
    ELSE read_exact(st, 1)

(***************************************************************************)
(* protocol.rs: impl Message for C2S.                                      *)
(***************************************************************************)
C2S_read_from(st) ==
    Then(read_message_type(st), LAMBDA t, r :
    CASE t.bytes[1] = 0 ->
           Then(read_exact(r, 3), LAMBDA pad, s1 :
           Then(PixelFormat_read_from(s1), LAMBDA pf, s2 :
           Ok([type |-> "SetPixelFormat", format |-> pf], s2)))
      [] t.bytes[1] = 2 ->
           Then(read_exact(r, 3), LAMBDA h, s1 :
           Then(read_encodings(s1, GetU16(Drop(h.bytes, 1)), <<>>), LAMBDA l, s2 :
           Ok([type |-> "SetEncodings", encodings |-> l.items], s2)))
      [] t.bytes[1] = 3 ->
           Then(read_exact(r, 9), LAMBDA b, s1 :
           Ok([type |-> "FramebufferUpdateRequest",
               incremental |-> b.bytes[1] # 0,
               x_position |-> GetU16(SubSeq(b.bytes, 2, 3)),
               y_position |-> GetU16(SubSeq(b.bytes, 4, 5)),
               width |-> GetU16(SubSeq(b.bytes, 6, 7)),
               height |-> GetU16(SubSeq(b.bytes, 8, 9))], s1))
      [] t.bytes[1] = 4 ->
           Then(read_exact(r, 7), LAMBDA b, s1 :
           Ok([type |-> "KeyEvent", down |-> b.bytes[1] # 0,
               key |-> GetU32(SubSeq(b.bytes, 4, 7))], s1))
      [] t.bytes[1] = 5 ->
           Then(read_exact(r, 5), LAMBDA b, s1 :
           Ok([type |-> "PointerEvent", button_mask |-> b.bytes[1],
               x_position |-> GetU16(SubSeq(b.bytes, 2, 3)),
               y_position |-> GetU16(SubSeq(b.bytes, 4, 5))], s1))
      [] t.bytes[1] = 6 ->
           Then(read_exact(r, 3), LAMBDA pad, s1 :
           Then(String_read_from(s1), LAMBDA str, s2 :
           Ok([type |-> "CutText", text |-> str.text], s2)))
      [] t.bytes[1] = 255 ->
           Then(read_exact(r, 1), LAMBDA sub, s1 :
           IF sub.bytes[1] # 0
           THEN Fail(Unexpected("server to client QEMU submessage type"), s1)
           ELSE Then(read_exact(s1, 10), LAMBDA b, s2 :
                Ok([type |-> "ExtendedKeyEvent",
                    down |-> GetU16(SubSeq(b.bytes, 1, 2)) # 0,
                    keysym |-> GetU32(SubSeq(b.bytes, 3, 6)),
                    keycode |-> GetU32(SubSeq(b.bytes, 7, 10))], s2)))
      [] OTHER -> Fail(Unexpected("client to server message type"), r))

C2S_write_to(m) ==
    CASE m.type = "SetPixelFormat" ->
           U8(0) \o Zeros(3) \o PixelFormat_write_to(m.format)
      [] m.type = "SetEncodings" ->
           U8(2) \o Zeros(1) \o U16(Len(m.encodings) % 65536) \o write_encodings(m.encodings)
      [] m.type = "FramebufferUpdateRequest" ->
           U8(3) \o U8(Bool(m.incremental)) \o U16(m.x_position) \o U16(m.y_position)
           \o U16(m.width) \o U16(m.height)
      [] m.type = "KeyEvent" ->
           U8(4) \o U8(Bool(m.down)) \o Zeros(2) \o U32(m.key)
      [] m.type = "PointerEvent" ->
           U8(5) \o U8(m.button_mask) \o U16(m.x_position) \o U16(m.y_position)
      [] m.type = "CutText" ->
           String_write_to(m.text)
      [] m.type = "ExtendedKeyEvent" ->
           U8(255) \o U8(0) \o U16(Bool(m.down)) \o U32(m.keysym) \o U32(m.keycode)

(***************************************************************************)
(* protocol.rs: impl Message for S2C.                                      *)
(***************************************************************************)
S2C_read_from(st) ==
    Then(read_message_type(st), LAMBDA t, r :
    CASE t.bytes[1] = 0 ->
           Then(read_exact(r, 3), LAMBDA b, s1 :
           Ok([type |-> "FramebufferUpdate", count |-> GetU16(Drop(b.bytes, 1))], s1))
      [] t.bytes[1] = 1 ->
           Then(read_exact(r, 5), LAMBDA b, s1 :
           Then(read_colours(s1, GetU16(SubSeq(b.bytes, 4, 5)), <<>>), LAMBDA l, s2 :
           Ok([type |-> "SetColourMapEntries",
               first_colour |-> GetU16(SubSeq(b.bytes, 2, 3)),
               colours |-> l.items], s2)))
      [] t.bytes[1] = 2 ->
           Ok([type |-> "Bell"], r)
      [] t.bytes[1] = 3 ->
           Then(read_exact(r, 3), LAMBDA pad, s1 :
           Then(String_read_from(s1), LAMBDA str, s2 :
           Ok([type |-> "CutText", text |-> str.text], s2)))
      [] OTHER -> Fail(Unexpected("server to client message type"), r))

S2C_write_to(m) ==
    CASE m.type = "FramebufferUpdate" ->
           U8(0) \o Zeros(1) \o U16(m.count)
      [] m.type = "SetColourMapEntries" ->
           U8(1) \o Zeros(1) \o U16(m.first_colour) \o write_colours(m.colours)
      [] m.type = "Bell" ->
           U8(2)
      [] m.type = "CutText" ->
           U8(3) \o Zeros(3) \o String_write_to(m.text)

(***************************************************************************)
(* Values drawn as inputs.                                                 *)
(***************************************************************************)
new_rgb8888 ==
    [bits_per_pixel |-> 32, depth |-> 24, big_endian |-> TRUE, true_colour |-> TRUE,
     red_max |-> 255, green_max |-> 255, blue_max |-> 255,
     red_shift |-> 0, green_shift |-> 8, blue_shift |-> 16]

new_bgr8888 ==
    [bits_per_pixel |-> 32, depth |-> 24, big_endian |-> TRUE, true_colour |-> TRUE,
     red_max |-> 255, green_max |-> 255, blue_max |-> 255,
     red_shift |-> 16, green_shift |-> 8, blue_shift |-> 0]

\* an 8-bit colour-mapped format and a 16-bit little-endian RGB565 format
Format8 ==
    [bits_per_pixel |-> 8, depth |-> 8, big_endian |-> FALSE, true_colour |-> FALSE,
     red_max |-> 0, green_max |-> 0, blue_max |-> 0,
     red_shift |-> 0, green_shift |-> 0, blue_shift |-> 0]

Format16 ==
    [bits_per_pixel |-> 16, depth |-> 16, big_endian |-> FALSE, true_colour |-> TRUE,
     red_max |-> 31, green_max |-> 63, blue_max |-> 31,
     red_shift |-> 11, green_shift |-> 5, blue_shift |-> 0]

Formats == {new_rgb8888, new_bgr8888, Format8, Format16}

SeqsUpTo(S, n) == UNION {[1..k -> S] : k \in 0..n}

\* Latin-1 characters: ASCII and the upper half
Chars == {0, 65, 127, 128, 233, 255}
Strings == SeqsUpTo(Chars, MaxStrLen)

Encodings ==
    {Enc("Raw"), Enc("CopyRect"), Enc("Rre"), Enc("Hextile"), Enc("Zrle"), Enc("Cursor"),
     Enc("DesktopSize"), Enc("ExtendedKeyEvent"), EncUnknown(7), EncUnknown(-1)}

Colours == {[red |-> 0, green |-> 0, blue |-> 0], [red |-> 65535, green |-> 258, blue |-> 1]}

C2SMessages ==
    {[type |-> "SetPixelFormat", format |-> f] : f \in Formats}
    \cup {[type |-> "SetEncodings", encodings |-> l] : l \in SeqsUpTo(Encodings, MaxList)}
    \cup [type : {"FramebufferUpdateRequest"}, incremental : BOOLEAN, x_position : {0, 258},
          y_position : {0, 65535}, width : {1, 640}, height : {1, 480}]
    \cup [type : {"KeyEvent"}, down : BOOLEAN, key : {0, 65, -1}]
    \cup [type : {"PointerEvent"}, button_mask : {0, 255}, x_position : {0, 258},
          y_position : {0, 65535}]
    \cup {[type |-> "CutText", text |-> t] : t \in Strings}
    \cup [type : {"ExtendedKeyEvent"}, down : BOOLEAN, keysym : {0, 65307},
          keycode : {0, -1}]

S2CMessages ==
    [type : {"FramebufferUpdate"}, count : {0, 1, 258, 65535}]
    \cup {[type |-> "SetColourMapEntries", first_colour |-> f, colours |-> l] :
            f \in {0, 258}, l \in SeqsUpTo(Colours, MaxList)}
    \cup {[type |-> "Bell"]}
    \cup {[type |-> "CutText", text |-> t] : t \in Strings}

\* The tag byte the RFB wire format gives each message type.
C2STag(m) ==
    CASE m.type = "SetPixelFormat" -> 0
      [] m.type = "SetEncodings" -> 2
      [] m.type = "FramebufferUpdateRequest" -> 3
      [] m.type = "KeyEvent" -> 4
      [] m.type = "PointerEvent" -> 5
      [] m.type = "CutText" -> 6
      [] m.type = "ExtendedKeyEvent" -> 255

\* Complete, well-formed records as they appear on the wire.
C2SRecords ==
    {<<0, 0, 0, 0>> \o PixelFormat_write_to(new_rgb8888),
     <<2, 0, 0, 1, 0, 0, 0, 16>>,
     <<3, 0, 0, 0, 0, 0, 0, 1, 0, 1>>,
     <<4, 1, 0, 0, 0, 0, 0, 65>>,
     <<5, 1, 0, 2, 0, 3>>,
     <<6, 0, 0, 0, 0, 0, 0, 1, 65>>,
     <<255, 0, 0, 1, 0, 0, 0, 65, 0, 0, 0, 30>>}

S2CRecords ==
    {<<0, 0, 0, 1>>,
     <<1, 0, 0, 1, 0, 1, 0, 1, 0, 2, 0, 3>>,
     <<2>>,
     <<3, 0, 0, 0, 0, 0, 0, 1, 65>>}

C2STags == {0, 2, 3, 4, 5, 6, 255}
S2CTags == {0, 1, 2, 3}
RawBytes == {0, 1, 2, 3, 6, 9, 255}
Ends == {"eof", "reset"}

ReadInputs(op, records) ==
    {[op |-> op, msg |-> NoVal, st |-> Stream(b, e)] :
        b \in UNION {{Take(r, k) : k \in 0..Len(r)} : r \in records}
              \cup {r \o <<7>> : r \in records}
              \cup SeqsUpTo(RawBytes, MaxRawLen),
        e \in Ends}

NoStream == Stream(<<>>, "eof")

CodecInputs ==
    {[op |-> "c2s_roundtrip", msg |-> m, st |-> NoStream] : m \in C2SMessages}
    \cup {[op |-> "s2c_roundtrip", msg |-> m, st |-> NoStream] : m \in S2CMessages}
    \cup {[op |-> "string_roundtrip", msg |-> NoVal, st |-> Stream(U32(Len(b)) \o b, "eof")] :
            b \in Strings}
    \cup ReadInputs("c2s_read", C2SRecords)
    \cup ReadInputs("s2c_read", S2CRecords)

NoOutput == [done |-> FALSE, bytes |-> <<>>, res |-> Fail(NoErr, NoStream)]

(***************************************************************************)
(* client.rs: Event and the channel between the pump and the Client.       *)
(***************************************************************************)
Rect(l, t, w, h) == [left |-> l, top |-> t, width |-> w, height |-> h]

\* Event::Disconnected(Option<Error>): None is NoErr
EvDisconnected(e) == [type |-> "Disconnected", error |-> e]
EvResize(w, h) == [type |-> "Resize", width |-> w, height |-> h]
EvSetColourMap(first, colours) ==
    [type |-> "SetColourMap", first_colour |-> first, colours |-> colours]
EvPutPixels(rect, pixels) == [type |-> "PutPixels", rect |-> rect, pixels |-> pixels]
EvCopyPixels(src, dst) == [type |-> "CopyPixels", src |-> src, dst |-> dst]
EvEndOfFrame == [type |-> "EndOfFrame"]
EvSetCursor(sz, hotspot, pixels, mask_bits) ==
    [type |-> "SetCursor", size |-> sz, hotspot |-> hotspot, pixels |-> pixels,
     mask_bits |-> mask_bits]
EvClipboard(text) == [type |-> "Clipboard", text |-> text]
EvBell == [type |-> "Bell"]

\* Sender::send: the event joins the back of the channel, or the send fails
\* because the Receiver is gone.
send_ok(alive) == alive
channel_push(q, e) == Append(q, e)

\* mutant: the newest event is taken instead of the oldest
try_recv_newest(q) ==
    IF q = <<>>
    THEN [some |-> FALSE, event |-> NoVal, rest |-> q]
    ELSE [some |-> TRUE, event |-> q[Len(q)], rest |-> SubSeq(q, 1, Len(q) - 1)]

\* mutant: the call takes an event and throws away the one behind it
try_recv_two(q) ==
    IF q = <<>>
    THEN [some |-> FALSE, event |-> NoVal, rest |-> q]
    ELSE [some |-> TRUE, event |-> Head(q), rest |-> IF Len(q) >= 2 THEN Tail(Tail(q)) ELSE <<>>]

\* Receiver::try_recv
try_recv(q) ==
    IF q = <<>>
    THEN [some |-> FALSE, event |-> NoVal, rest |-> q]
    ELSE [some |-> TRUE, event |-> Head(q), rest |-> Tail(q)]

(***************************************************************************)
(* zrle::Decoder::decode as the pump uses it: the rectangle is cut into    *)
(* 64x64 tiles, row-major, clipped at the right and bottom edges; each     *)
(* tile is handed to the sink with bits_per_pixel/8 bytes per pixel.  The  *)
(* pixel values are not modelled (zero bytes); a decoder given no input    *)
(* fails reading the first subencoding byte.                               *)
(***************************************************************************)
Min(a, b) == IF a < b THEN a ELSE b

\* mutant: the tiles of the last column and row are not clipped
zrle_tiles_unclipped(fmt, dst) ==
    LET nx == (dst.width + 63) \div 64
        ny == (dst.height + 63) \div 64
    IN [i \in 1..(nx * ny) |->
          EvPutPixels(Rect(dst.left + ((i - 1) % nx) * 64, dst.top + ((i - 1) \div nx) * 64,
                           64, 64),
                      Zeros(64 * 64 * (fmt.bits_per_pixel \div 8)))]

zrle_tiles(fmt, dst) ==
    LET nx == (dst.width + 63) \div 64
        ny == (dst.height + 63) \div 64
    IN [i \in 1..(nx * ny) |->
          LET x == ((i - 1) % nx) * 64
              y == ((i - 1) \div nx) * 64
              w == Min(64, dst.width - x)
              h == Min(64, dst.height - y)
          IN EvPutPixels(Rect(dst.left + x, dst.top + y, w, h),
                         Zeros(w * h * (fmt.bits_per_pixel \div 8)))]

zrle_decode(fmt, dst, data, st) ==
    IF data = <<>> /\ dst.width * dst.height > 0
    THEN Fail(Io("UnexpectedEof"), st)
    ELSE Ok([type |-> "events", events |-> zrle_tiles(fmt, dst)], st)

(***************************************************************************)
(* client.rs, Event::pump: one iteration of `for _ in 0..count`, up to the *)
(* events it is about to send.  fmt is the format the pump copied out of   *)
(* the mutex after reading the message header.                             *)
(***************************************************************************)
RectangleHeader_read_from(st) ==
    Then(read_exact(st, 8), LAMBDA r, s1 :
    Then(Encoding_read_from(s1), LAMBDA e, s2 :
    Ok([x_position |-> GetU16(SubSeq(r.bytes, 1, 2)),
        y_position |-> GetU16(SubSeq(r.bytes, 3, 4)),
        width |-> GetU16(SubSeq(r.bytes, 5, 6)),
        height |-> GetU16(SubSeq(r.bytes, 7, 8)),
        encoding |-> e], s2)))

Events(evs) == [type |-> "events", events |-> evs]
DstRect(rectangle) ==
    Rect(rectangle.x_position, rectangle.y_position, rectangle.width, rectangle.height)

\* mutant: a rectangle of an encoding the pump does not handle is skipped
unexpected_encoding_skipped(rectangle, st) == Ok(Events(<<>>), st)

\* _ => return Err(Error::Unexpected("encoding"))
unexpected_encoding(rectangle, st) == Fail(Unexpected("encoding"), st)

pump_rectangle(st, fmt) ==
    Then(RectangleHeader_read_from(st), LAMBDA rectangle, s1 :
    CASE rectangle.encoding.name = "Raw" ->
           Then(read_exact(s1, rectangle.width * rectangle.height
                               * (fmt.bits_per_pixel \div 8)), LAMBDA pixels, s2 :
           Ok(Events(<<EvPutPixels(DstRect(rectangle), pixels.bytes)>>), s2))
      [] rectangle.encoding.name = "CopyRect" ->
           Then(read_exact(s1, 4), LAMBDA cr, s2 :
           Ok(Events(<<EvCopyPixels(Rect(GetU16(SubSeq(cr.bytes, 1, 2)),
                                         GetU16(SubSeq(cr.bytes, 3, 4)),
                                         rectangle.width, rectangle.height),
                                    DstRect(rectangle))>>), s2))
      [] rectangle.encoding.name = "Zrle" ->
           Then(read_exact(s1, 4), LAMBDA l, s2 :
           Then(read_exact(s2, GetU32(l.bytes)), LAMBDA data, s3 :
           zrle_decode(fmt, DstRect(rectangle), data.bytes, s3)))
      [] rectangle.encoding.name = "Cursor" ->
           Then(read_exact(s1, rectangle.width * rectangle.height
                               * (fmt.bits_per_pixel \div 8)), LAMBDA pixels, s2 :
           Then(read_exact(s2, ((rectangle.width + 7) \div 8) * rectangle.height),
                LAMBDA mask, s3 :
           Ok(Events(<<EvSetCursor(<<rectangle.width, rectangle.height>>,
                                   <<rectangle.x_position, rectangle.y_position>>,
                                   pixels.bytes, mask.bytes)>>), s3)))
      [] rectangle.encoding.name = "DesktopSize" ->
           Ok(Events(<<EvResize(rectangle.width, rectangle.height)>>), s1)
      [] OTHER -> unexpected_encoding(rectangle, s1))

\* The event a message other than FramebufferUpdate turns into.
pump_message_event(packet) ==
    CASE packet.type = "SetColourMapEntries" ->
           EvSetColourMap(packet.first_colour, packet.colours)
      [] packet.type = "Bell" -> EvBell
      [] packet.type = "CutText" -> EvClipboard(packet.text)

(***************************************************************************)
(* The session after Client::from_tcp_stream returned Ok: the environment  *)
(* (server and network), the pump thread and the caller thread.            *)
(***************************************************************************)
InitFormat == new_rgb8888
InitSize == <<1, 1>>
NewFormats == {Format8, new_bgr8888}

\* What the server may write in one go: whole messages, an unknown tag and
\* records cut short (the connection is then closed or fails).
ServerChunks ==
    {<<2>>,
     <<3, 0, 0, 0, 0, 0, 0, 1, 65>>,
     <<1, 0, 0, 1, 0, 1, 0, 1, 0, 2, 0, 3>>,
     <<0, 0, 0, 0>>,
     <<0, 0, 0, 1, 0, 0, 0, 0, 0, 1, 0, 1, 0, 0, 0, 0, 10, 20, 30, 40>>,
     <<0, 0, 0, 2, 0, 0, 0, 0, 0, 2, 0, 1>> \o I32(-223)
        \o <<0, 10, 0, 20, 0, 5, 0, 5, 0, 0, 0, 1, 0, 100, 0, 200>>,
     <<0, 0, 0, 1, 0, 0, 0, 0, 0, 1, 0, 1, 0, 0, 0, 2>>,
     <<0, 0, 0, 1, 0, 3, 0, 4, 0, 1, 0, 1>> \o I32(-239) \o <<1, 2, 3, 4, 128>>,
     <<0, 0, 0, 1, 0, 0, 0, 0, 0, 1, 0, 1, 0, 0, 0, 16, 0, 0, 0, 1, 7>>,
     <<9>>,
     <<3, 0, 0>>,
     <<0, 0, 0, 1, 0, 0, 0, 0, 0, 1, 0, 1, 0, 0, 0, 0, 10>>}

NoRet == [kind |-> "none", event |-> NoVal]

SessionInit ==
    /\ s2c = Stream(<<>>, "open")
    /\ c2s_wire = <<>>
    /\ conn_wr = "ok"
    /\ format = InitFormat
    /\ size = InitSize
    /\ queue = <<>>
    /\ rx_alive = TRUE
    /\ pump = [pc |-> "message", count |-> 0, format |-> InitFormat, result |-> NoErr,
               cause |-> NoErr]
    /\ caller = [pc |-> "idle", arg |-> InitFormat, rect |-> Rect(0, 0, 0, 0), ret |-> NoRet]
    /\ sent = <<>>
    /\ polled = <<>>
    /\ nsend = 0
    /\ served = <<>>

CodecIdle ==
    /\ codec_in = [op |-> "none", msg |-> NoVal, st |-> NoStream]
    /\ codec_out = NoOutput

\* No handshake is being followed: the session has been established.
HsIdle ==
    /\ hs = NoVal
    /\ hs_in = NoStream
    /\ srv = NoVal
    /\ srv_in = NoStream

\* No proxy is running.
PxIdle ==
    /\ px = NoVal
    /\ px_srv = NoStream
    /\ px_cli = NoStream

(* ---- environment ---- *)

ServerSend ==
    /\ s2c.end = "open"
    /\ nsend < MaxSend
    /\ \E chunk \in ServerChunks : s2c' = Stream(s2c.buf \o chunk, "open")
    /\ nsend' = nsend + 1
    /\ UNCHANGED <<c2s_wire, conn_wr, format, size, queue, rx_alive, pump, caller, sent, polled>>

\* The peer closes the connection: reads find end-of-file after the bytes in flight.
ServerClose ==
    /\ s2c.end = "open"
    /\ s2c' = Stream(s2c.buf, "eof")
    /\ UNCHANGED <<c2s_wire, conn_wr, format, size, queue, rx_alive, pump, caller, sent, polled,
                   nsend>>

\* The connection fails: writes fail from now on, and so do reads unless the
\* peer had already closed.
NetFail ==
    /\ conn_wr = "ok"
    /\ conn_wr' = "broken"
    /\ s2c' = Stream(s2c.buf, IF s2c.end = "open" THEN "reset" ELSE s2c.end)
    /\ UNCHANGED <<c2s_wire, format, size, queue, rx_alive, pump, caller, sent, polled, nsend>>

(* ---- the pump thread: Event::pump and the closure that runs it ---- *)

RECURSIVE push_all(_, _)
push_all(q, evs) ==
    IF evs = <<>> THEN q ELSE push_all(channel_push(q, Head(evs)), Tail(evs))

\* send!(tx_events, ...) for each event of evs; the result is whether the
\* sends succeeded.
Deliver(evs) ==
    IF send_ok(rx_alive)
    THEN queue' = push_all(queue, evs) /\ sent' = sent \o evs
    ELSE UNCHANGED <<queue, sent>>

Returned(result, cause) ==
    [pump EXCEPT !.pc = "returned", !.result = result, !.cause = cause]

\* mutant: the error Event::pump returned is dropped
pump_exit_event_no_error(result) == EvDisconnected(NoErr)

\* The event the thread's closure sends once Event::pump has returned.
pump_exit_event(result) == EvDisconnected(result)

\* S2C::read_from at the top of the loop, and the arm of `match packet`
\* for everything but the rectangles of a FramebufferUpdate.
PumpReadMessage ==
    /\ pump.pc = "message"
    /\ LET r == S2C_read_from(s2c) IN
       /\ r.err # WouldBlock
       /\ s2c' = r.rest
       /\ IF r.ok
          THEN IF r.val.type = "FramebufferUpdate"
               THEN /\ pump' = [pump EXCEPT !.pc = "rectangle", !.count = r.val.count,
                                            !.format = format]
                    /\ UNCHANGED <<queue, sent>>
               ELSE /\ Deliver(<<pump_message_event(r.val)>>)
                    /\ pump' = IF send_ok(rx_alive)
                               THEN [pump EXCEPT !.format = format]
                               ELSE Returned(NoErr, NoErr)
          ELSE IF r.err = Disconnected
               THEN /\ Deliver(<<EvDisconnected(NoErr)>>)
                    /\ pump' = Returned(NoErr, r.err)
               ELSE /\ pump' = Returned(r.err, r.err)
                    /\ UNCHANGED <<queue, sent>>
    /\ UNCHANGED <<c2s_wire, conn_wr, format, size, rx_alive, caller, polled, nsend>>

\* mutant: a failed send is ignored and the for loop goes on
rectangles_left_ignoring(count, events, alive) == count - 1

\* send!(..) within `for _ in 0..count`: Err(_) => break leaves the for loop
rectangles_left(count, events, alive) ==
    IF send_ok(alive) \/ events = <<>> THEN count - 1 ELSE 0

\* One iteration of `for _ in 0..count`.  A failed send leaves the for loop.
PumpReadRectangle ==
    /\ pump.pc = "rectangle"
    /\ pump.count > 0
    /\ LET r == pump_rectangle(s2c, pump.format) IN
       /\ r.err # WouldBlock
       /\ s2c' = r.rest
       /\ IF r.ok
          THEN /\ Deliver(r.val.events)
               /\ pump' = [pump EXCEPT !.count = rectangles_left(@, r.val.events, rx_alive)]
          ELSE /\ pump' = Returned(r.err, r.err)
               /\ UNCHANGED <<queue, sent>>
    /\ UNCHANGED <<c2s_wire, conn_wr, format, size, rx_alive, caller, polled, nsend>>

\* send!(tx_events, Event::EndOfFrame) after the for loop.
PumpEndOfFrame ==
    /\ pump.pc = "rectangle"
    /\ pump.count = 0
    /\ Deliver(<<EvEndOfFrame>>)
    /\ pump' = IF send_ok(rx_alive) THEN [pump EXCEPT !.pc = "message"]
                                    ELSE Returned(NoErr, NoErr)
    /\ UNCHANGED <<s2c, c2s_wire, conn_wr, format, size, rx_alive, caller, polled, nsend>>

\* let error = Event::pump(..).err(); let _ = tx_events.send(Event::Disconnected(error));
PumpThreadExit ==
    /\ pump.pc = "returned"
    /\ Deliver(<<pump_exit_event(pump.result)>>)
    /\ pump' = [pump EXCEPT !.pc = "done"]
    /\ UNCHANGED <<s2c, c2s_wire, conn_wr, format, size, rx_alive, caller, polled, nsend>>

(* ---- the caller thread: Client ---- *)

\* Client::poll_event: one try_recv; a Resize updates self.size.
poll_event_size(r) ==
    IF r.some /\ r.event.type = "Resize" THEN <<r.event.width, r.event.height>> ELSE size

PollEffects(r) ==
    /\ queue' = r.rest
    /\ size' = poll_event_size(r)
    /\ polled' = IF r.some THEN Append(polled, r.event) ELSE polled

PollRet(r) == [kind |-> IF r.some THEN "some" ELSE "none", event |-> r.event]

\* The application calls poll_event.
CallerPoll ==
    /\ caller.pc = "idle"
    /\ rx_alive
    /\ LET r == try_recv(queue) IN
       /\ PollEffects(r)
       /\ caller' = [caller EXCEPT !.ret = PollRet(r)]
    /\ UNCHANGED <<s2c, c2s_wire, conn_wr, format, rx_alive, pump, sent, nsend>>

\* The application calls set_format(f).
SetFormatCall ==
    /\ caller.pc = "idle"
    /\ rx_alive
    /\ \E f \in NewFormats : caller' = [caller EXCEPT !.pc = "drain", !.arg = f, !.ret = NoRet]
    /\ UNCHANGED <<s2c, c2s_wire, conn_wr, format, size, queue, rx_alive, pump, sent, polled,
                   nsend>>

\* mutant: the update is requested as an incremental one
full_update_request_incremental(sz) ==
    [type |-> "FramebufferUpdateRequest", incremental |-> TRUE,
     x_position |-> 0, y_position |-> 0, width |-> sz[1], height |-> sz[2]]

\* The request set_format writes once the queue is drained.
full_update_request(sz) ==
    [type |-> "FramebufferUpdateRequest", incremental |-> FALSE,
     x_position |-> 0, y_position |-> 0, width |-> sz[1], height |-> sz[2]]

\* let _ = self.poll_iter().count(): one poll_event per step; when it returns
\* None, request_update(framebuffer_rect, false).
SetFormatDrain ==
    /\ caller.pc = "drain"
    /\ LET r == try_recv(queue) IN
       /\ PollEffects(r)
       /\ IF r.some
          THEN UNCHANGED <<caller, c2s_wire>>
          ELSE IF conn_wr = "ok"
               THEN /\ c2s_wire' = c2s_wire \o C2S_write_to(full_update_request(size))
                    /\ caller' = [caller EXCEPT !.pc = "wait",
                                                !.rect = Rect(0, 0, size[1], size[2])]
               ELSE /\ caller' = [caller EXCEPT !.pc = "idle",
                                   !.ret = [kind |-> "set_format_err", event |-> NoVal]]
                    /\ UNCHANGED c2s_wire
    /\ UNCHANGED <<s2c, conn_wr, format, rx_alive, pump, sent, nsend>>

\* The arm of set_format's loop that ends it.
is_full_update(event, framebuffer_rect) ==
    event.type = "PutPixels" /\ event.rect = framebuffer_rect

\* 'outer: loop { for event in self.poll_iter() { .. } }: one poll_event per step.
SetFormatWait ==
    /\ caller.pc = "wait"
    /\ LET r == try_recv(queue) IN
       /\ PollEffects(r)
       /\ caller' = IF r.some /\ is_full_update(r.event, caller.rect)
                    THEN [caller EXCEPT !.pc = "write"]
                    ELSE caller
    /\ UNCHANGED <<s2c, c2s_wire, conn_wr, format, rx_alive, pump, sent, nsend>>

\* try!(C2S::write_to(&set_pixel_format, &mut self.stream))
SetFormatWrite ==
    /\ caller.pc = "write"
    /\ IF conn_wr = "ok"
       THEN /\ c2s_wire' = c2s_wire \o C2S_write_to([type |-> "SetPixelFormat",
                                                     format |-> caller.arg])
            /\ caller' = [caller EXCEPT !.pc = "swap"]
       ELSE /\ caller' = [caller EXCEPT !.pc = "idle",
                           !.ret = [kind |-> "set_format_err", event |-> NoVal]]
            /\ UNCHANGED c2s_wire
    /\ UNCHANGED <<s2c, conn_wr, format, size, queue, rx_alive, pump, sent, polled, nsend>>

\* *self.format.lock().unwrap() = format; Ok(())
SetFormatSwap ==
    /\ caller.pc = "swap"
    /\ format' = caller.arg
    /\ caller' = [caller EXCEPT !.pc = "idle",
                   !.ret = [kind |-> "set_format_ok", event |-> NoVal]]
    /\ UNCHANGED <<s2c, c2s_wire, conn_wr, size, queue, rx_alive, pump, sent, polled, nsend>>

\* mutant: only the writing half of the socket is shut down
shutdown_write_only(end) == end

\* self.stream.shutdown(Shutdown::Both): a read of the pump's clone of the
\* stream finds end-of-file after the bytes already received
shutdown_both(end) == IF end = "open" THEN "eof" ELSE end

\* Client::disconnect(self): shutdown(Shutdown::Both), then the Client and
\* with it the Receiver are dropped.
Disconnect ==
    /\ caller.pc = "idle"
    /\ rx_alive
    /\ s2c' = Stream(s2c.buf, shutdown_both(s2c.end))
    /\ conn_wr' = "broken"
    /\ rx_alive' = FALSE
    /\ queue' = <<>>
    /\ caller' = [caller EXCEPT !.pc = "gone", !.ret = NoRet]
    /\ UNCHANGED <<c2s_wire, format, size, pump, sent, polled, nsend>>

\* The Client is dropped without disconnect: the pump's clone keeps the
\* connection open.
DropClient ==
    /\ caller.pc = "idle"
    /\ rx_alive
    /\ rx_alive' = FALSE
    /\ queue' = <<>>
    /\ caller' = [caller EXCEPT !.pc = "gone", !.ret = NoRet]
    /\ UNCHANGED <<s2c, c2s_wire, conn_wr, format, size, pump, sent, polled, nsend>>

Init == SessionInit /\ CodecIdle /\ HsIdle /\ PxIdle

Next ==
    \/ (ServerSend /\ UNCHANGED beside_session)
    \/ (ServerClose /\ UNCHANGED beside_session)
    \/ (NetFail /\ UNCHANGED beside_session)
    \/ (PumpReadMessage /\ UNCHANGED beside_session)
    \/ (PumpReadRectangle /\ UNCHANGED beside_session)
    \/ (PumpEndOfFrame /\ UNCHANGED beside_session)
    \/ (PumpThreadExit /\ UNCHANGED beside_session)
    \/ (CallerPoll /\ UNCHANGED beside_session)
    \/ (SetFormatCall /\ UNCHANGED beside_session)
    \/ (SetFormatDrain /\ UNCHANGED beside_session)
    \/ (SetFormatWait /\ UNCHANGED beside_session)
    \/ (SetFormatWrite /\ UNCHANGED beside_session)
    \/ (SetFormatSwap /\ UNCHANGED beside_session)
    \/ (Disconnect /\ UNCHANGED beside_session)
    \/ (DropClient /\ UNCHANGED beside_session)

Spec == Init /\ [][Next]_vars

(***************************************************************************)
(* The codec harness: an input is drawn, then the operation is applied.    *)
(***************************************************************************)
CodecInit == SessionInit /\ HsIdle /\ PxIdle /\ codec_in \in CodecInputs /\ codec_out = NoOutput

Output(bytes, res) == [done |-> TRUE, bytes |-> bytes, res |-> res]

\* C2S::write_to(m), then C2S::read_from over exactly the bytes written
C2SRoundTrip ==
    /\ codec_in.op = "c2s_roundtrip"
    /\ ~codec_out.done
    /\ codec_out' = Output(C2S_write_to(codec_in.msg),
                           C2S_read_from(Stream(C2S_write_to(codec_in.msg), "eof")))
    /\ UNCHANGED codec_in

\* S2C::write_to(m), then S2C::read_from over exactly the bytes written
S2CRoundTrip ==
    /\ codec_in.op = "s2c_roundtrip"
    /\ ~codec_out.done
    /\ codec_out' = Output(S2C_write_to(codec_in.msg),
                           S2C_read_from(Stream(S2C_write_to(codec_in.msg), "eof")))
    /\ UNCHANGED codec_in

StringWriteBack(res) == Output(IF res.ok THEN String_write_to(res.val.text) ELSE <<>>, res)

\* String::read_from over (u32 n, b), then String::write_to of the string read
StringRoundTrip ==
    /\ codec_in.op = "string_roundtrip"
    /\ ~codec_out.done
    /\ codec_out' = StringWriteBack(String_read_from(codec_in.st))
    /\ UNCHANGED codec_in

C2SRead ==
    /\ codec_in.op = "c2s_read"
    /\ ~codec_out.done
    /\ codec_out' = Output(<<>>, C2S_read_from(codec_in.st))
    /\ UNCHANGED codec_in

S2CRead ==
    /\ codec_in.op = "s2c_read"
    /\ ~codec_out.done
    /\ codec_out' = Output(<<>>, S2C_read_from(codec_in.st))
    /\ UNCHANGED codec_in

CodecNext ==
    \/ (C2SRoundTrip /\ UNCHANGED beside_codec)
    \/ (S2CRoundTrip /\ UNCHANGED beside_codec)
    \/ (StringRoundTrip /\ UNCHANGED beside_codec)
    \/ (C2SRead /\ UNCHANGED beside_codec)
    \/ (S2CRead /\ UNCHANGED beside_codec)

CodecSpec == CodecInit /\ [][CodecNext]_vars

(***************************************************************************)
(* Properties of the client session (Spec).                                *)
(***************************************************************************)
IsDisconnected(e) == e.type = "Disconnected"
Last(q) == q[Len(q)]

\* C1: once the pump has placed a Disconnected event on the queue it places
\* no further event: a Disconnected event is only ever the last event sent.
C1_DisconnectedIsTerminal ==
    \A i \in 1..Len(sent) : IsDisconnected(sent[i]) => i = Len(sent)

\* C2: when the pump has ended because a read failed and the receiver is
\* alive, the last event delivered is Disconnected carrying that error, or
\* Disconnected(None) when the failure was end-of-file before a message; the
\* pump thread has then terminated and reads nothing more.
C2_PumpEndsWithDisconnected ==
    (pump.pc \in {"returned", "done"} => ~ENABLED (PumpReadMessage \/ PumpReadRectangle))
    /\ ((pump.pc = "done" /\ rx_alive) =>
           /\ pump.cause # NoErr
           /\ sent # <<>>
           /\ Last(sent) = EvDisconnected(IF pump.cause = Disconnected
                                          THEN NoErr ELSE pump.cause))

C2_Witness ==
    /\ pump.pc = "done"
    /\ rx_alive
    /\ pump.cause = Unexpected("encoding")
    /\ Last(sent) = EvDisconnected(Unexpected("encoding"))

\* C3: the events poll_event has returned, followed by the events still in
\* the channel, are the events the pump sent, in the order it sent them.
C3_QueueIsFifo == rx_alive => sent = polled \o queue

C3_Witness ==
    /\ rx_alive
    /\ Len(polled) >= 2
    /\ polled[1] # polled[2]
    /\ queue # <<>>
    /\ Last(queue) # polled[1]

\* C4: every call of set_format eventually returns, also when the peer
\* closes the connection while it waits.  It cannot return from a state in
\* which it waits for the full update, the channel is empty and the pump
\* thread has exited, so no such state may be reached.
C4_SetFormatNeverStranded ==
    ~(caller.pc = "wait" /\ pump.pc = "done" /\ queue = <<>>)

\* The bytes of SetPixelFormat(f) and FramebufferUpdateRequest on the wire,
\* written out from the RFB message layout.
WireFormat(f) ==
    IF f = Format8
    THEN <<8, 8, 0, 0, 0, 0, 0, 0, 0, 0, 0, 0, 0, 0, 0, 0>>
    ELSE <<32, 24, 1, 1, 0, 255, 0, 255, 0, 255, 16, 8, 0, 0, 0, 0>>
WireSetFormat(rect, f) ==
    <<3, 0, 0, 0, 0, 0, rect.width \div 256, rect.width % 256,
      rect.height \div 256, rect.height % 256>>
    \o <<0, 0, 0, 0>> \o WireFormat(f)
EndsWith(w, tail) ==
    Len(w) >= Len(tail) /\ SubSeq(w, Len(w) - Len(tail) + 1, Len(w)) = tail

\* C5: in the step in which set_format returns Ok the shared format becomes
\* the requested one and the last bytes written are a non-incremental
\* FramebufferUpdateRequest for the whole framebuffer followed by
\* SetPixelFormat(f); the shared format changes in no other step, so a
\* set_format that returns an error leaves it unchanged.
C5_SetFormat ==
    [][/\ (caller'.ret.kind = "set_format_ok" /\ caller.pc # "idle") =>
             /\ format' = caller.arg
             /\ caller.rect.left = 0 /\ caller.rect.top = 0
             /\ EndsWith(c2s_wire', WireSetFormat(caller.rect, caller.arg))
       /\ (format' # format) => (caller.pc # "idle" /\ caller'.ret.kind = "set_format_ok")
       /\ (caller'.ret.kind = "set_format_err" /\ caller.pc # "idle") => format' = format
      ]_vars

C5_Witness ==
    /\ caller.ret.kind = "set_format_ok"
    /\ format = Format8
    /\ EndsWith(c2s_wire, WireSetFormat(Rect(0, 0, 1, 1), Format8))

\* C6: poll_event can always be called and return at once, whatever the
\* pump does; on an empty queue it returns None, and a call takes at most
\* one event off the queue.
C6_PollNeverBlocks ==
    [][/\ (caller.pc = "idle" /\ rx_alive) => ENABLED CallerPoll
       /\ CallerPoll =>
             /\ (queue = <<>> => (caller'.ret.kind = "none" /\ queue' = <<>>))
             /\ (queue # <<>> => (caller'.ret = [kind |-> "some", event |-> Head(queue)]
                                  /\ Len(queue') = Len(queue) - 1))
      ]_vars

C6_Witness ==
    /\ caller.pc = "idle"
    /\ caller.ret.kind = "none"
    /\ queue = <<>>
    /\ pump.pc = "done"
    /\ polled # <<>>

(***************************************************************************)
(* Properties of the codec (CodecSpec).                                    *)
(***************************************************************************)
Applied(op) == codec_in.op = op /\ codec_out.done

RoundTrips ==
    /\ codec_out.res.ok
    /\ codec_out.res.val = codec_in.msg
    /\ codec_out.res.rest.buf = <<>>

\* C7: every client-to-server message is read back by C2S::read_from from
\* the bytes C2S::write_to produced, which are used up exactly, and the
\* bytes start with the tag of the message (0, 2, 3, 4, 5, 6, 255).
C7_C2SRoundTrip ==
    Applied("c2s_roundtrip") =>
        /\ RoundTrips
        /\ codec_out.bytes # <<>>
        /\ codec_out.bytes[1] = C2STag(codec_in.msg)

\* C8: every server-to-client message is read back by S2C::read_from from
\* the bytes S2C::write_to produced, which are used up exactly; a
\* SetColourMapEntries record carries the u16 count and that many colours.
C8_S2CRoundTrip ==
    Applied("s2c_roundtrip") =>
        /\ RoundTrips
        /\ codec_in.msg.type = "SetColourMapEntries" =>
              /\ Len(codec_out.bytes) = 6 + 6 * Len(codec_in.msg.colours)
              /\ GetU16(SubSeq(codec_out.bytes, 5, 6)) = Len(codec_in.msg.colours)

\* C9: writing the string read from (u32 n, b) gives back (u32 n, b), and
\* the length prefix written is the number of bytes written after it.
C9_StringRoundTrip ==
    Applied("string_roundtrip") =>
        /\ codec_out.res.ok
        /\ codec_out.bytes = codec_in.st.buf
        /\ GetU32(Take(codec_out.bytes, 4)) = Len(codec_out.bytes) - 4

Records(op) == IF op = "c2s_read" THEN C2SRecords ELSE S2CRecords
Tags(op) == IF op = "c2s_read" THEN C2STags ELSE S2CTags
\* the input stops inside a record: it is a proper, non-empty prefix of one
Truncated(op, b) == \E r \in Records(op) : \E k \in 1..(Len(r) - 1) : b = Take(r, k)

\* C10: C2S::read_from and S2C::read_from report Disconnected exactly when
\* end-of-file is found before the first byte of a message; end-of-file (or
\* any other I/O failure) inside a record is an I/O error, and an unknown tag
\* byte is Unexpected.
C10_ReadErrors ==
    \A op \in {"c2s_read", "s2c_read"} :
        Applied(op) =>
            LET b == codec_in.st.buf
                err == codec_out.res.err
            IN /\ (err = Disconnected) <=> (b = <<>> /\ codec_in.st.end = "eof")
               /\ (b = <<>> /\ codec_in.st.end = "reset") => err = Io("ConnectionReset")
               /\ (Truncated(op, b) /\ codec_in.st.end = "eof") => err = Io("UnexpectedEof")
               /\ (Truncated(op, b) /\ codec_in.st.end = "reset") => err = Io("ConnectionReset")
               /\ (b # <<>> /\ b[1] \notin Tags(op)) => err.kind = "Unexpected"
               /\ (b \in Records(op)) => codec_out.res.ok

C10_Witness ==
    /\ Applied("c2s_read")
    /\ codec_in.st = Stream(<<6, 0, 0, 0, 0, 0, 0, 1>>, "eof")
    /\ codec_out.res.err = Io("UnexpectedEof")

(***************************************************************************)
(* protocol.rs: the messages of the handshake.                             *)
(***************************************************************************)
\* b"RFB 003.00x\n"
VersionBytes(minor) == <<82, 70, 66, 32, 48, 48, 51, 46>> \o minor \o <<10>>

Version_of(buf) ==
    CASE buf = VersionBytes(<<48, 48, 51>>) -> "Rfb33"
      [] buf = VersionBytes(<<48, 48, 55>>) -> "Rfb37"
      [] buf = VersionBytes(<<48, 48, 56>>) -> "Rfb38"
      [] buf = VersionBytes(<<56, 56, 57>>) -> "Rfb38"
      [] OTHER -> "none"

Version_read_from(st) ==
    Then(read_exact(st, 12), LAMBDA buf, s1 :
    IF Version_of(buf.bytes) = "none"
    THEN Fail(Unexpected("protocol version"), s1)
    ELSE Ok([type |-> "Version", version |-> Version_of(buf.bytes)], s1))

Version_write_to(v) ==
    CASE v = "Rfb33" -> VersionBytes(<<48, 48, 51>>)
      [] v = "Rfb37" -> VersionBytes(<<48, 48, 55>>)
      [] v = "Rfb38" -> VersionBytes(<<48, 48, 56>>)

SecType(name) == [name |-> name, n |-> 0]
SecUnknown(n) == [name |-> "Unknown", n |-> n]

SecurityType_of(b) ==
    CASE b = 0 -> SecType("Invalid")
      [] b = 1 -> SecType("None")
      [] b = 2 -> SecType("VncAuthentication")
      [] b = 30 -> SecType("AppleRemoteDesktop")
      [] OTHER -> SecUnknown(b)

\* one byte, whatever the protocol version
SecurityType_read_from(st) ==
    Then(read_exact(st, 1), LAMBDA b, s1 : Ok(SecurityType_of(b.bytes[1]), s1))

SecurityType_write_to(t) ==
    U8(CASE t.name = "Invalid" -> 0
         [] t.name = "None" -> 1
         [] t.name = "VncAuthentication" -> 2
         [] t.name = "AppleRemoteDesktop" -> 30
         [] OTHER -> t.n)

RECURSIVE read_security_types(_, _, _)
read_security_types(st, count, acc) ==
    IF count = 0 THEN Ok([type |-> "list", items |-> acc], st) ELSE
    Then(SecurityType_read_from(st), LAMBDA t, s1 :
         read_security_types(s1, count - 1, Append(acc, t)))

SecurityTypes_read_from(st) ==
    Then(read_exact(st, 1), LAMBDA count, s1 : read_security_types(s1, count.bytes[1], <<>>))

RECURSIVE write_security_types(_)
write_security_types(l) ==
    IF l = <<>> THEN <<>> ELSE SecurityType_write_to(Head(l)) \o write_security_types(Tail(l))

SecurityTypes_write_to(l) == U8(Len(l)) \o write_security_types(l)

SecurityResult_read_from(st) ==
    Then(read_exact(st, 4), LAMBDA r, s1 :
    CASE GetU32(r.bytes) = 0 -> Ok([type |-> "SecurityResult", result |-> "Succeeded"], s1)
      [] GetU32(r.bytes) = 1 -> Ok([type |-> "SecurityResult", result |-> "Failed"], s1)
      [] OTHER -> Fail(Unexpected("security result"), s1))

SecurityResult_write_to(r) == U32(IF r = "Succeeded" THEN 0 ELSE 1)

ClientInit_read_from(st) ==
    Then(read_exact(st, 1), LAMBDA b, s1 :
    Ok([type |-> "ClientInit", shared |-> b.bytes[1] # 0], s1))

ClientInit_write_to(shared) == U8(Bool(shared))

ServerInit_read_from(st) ==
    Then(read_exact(st, 4), LAMBDA wh, s1 :
    Then(PixelFormat_read_from(s1), LAMBDA pf, s2 :
    Then(String_read_from(s2), LAMBDA name, s3 :
    Ok([type |-> "ServerInit",
        framebuffer_width |-> GetU16(SubSeq(wh.bytes, 1, 2)),
        framebuffer_height |-> GetU16(SubSeq(wh.bytes, 3, 4)),
        pixel_format |-> pf, name |-> name.text], s3))))

ServerInit_write_to(si) ==
    U16(si.framebuffer_width) \o U16(si.framebuffer_height)
    \o PixelFormat_write_to(si.pixel_format) \o String_write_to(si.name)

\* generator, key_length, then prime and peer_key of key_length bytes each
AppleAuthHandshake_read_from(st) ==
    Then(read_exact(st, 4), LAMBDA h, s1 :
    Then(read_exact(s1, GetU16(SubSeq(h.bytes, 3, 4))), LAMBDA prime, s2 :
    Then(read_exact(s2, GetU16(SubSeq(h.bytes, 3, 4))), LAMBDA peer_key, s3 :
    Ok([type |-> "AppleAuthHandshake", key_length |-> GetU16(SubSeq(h.bytes, 3, 4))], s3))))

\* Errors Client::from_tcp_stream returns besides those of the readers.
Server(reason) == [kind |-> "Server", reason |-> reason]
AuthenticationUnavailable == [kind |-> "AuthenticationUnavailable", what |-> ""]
AuthenticationFailure(reason) == [kind |-> "AuthenticationFailure", reason |-> reason]

(***************************************************************************)
(* client.rs, Client::from_tcp_stream: one action per read, write or call. *)
(* hs.log records every read attempted, write made and call of `auth`;     *)
(* hs.out is everything the client has written.                            *)
(***************************************************************************)
\* AuthChoice, and None of Option<AuthChoice>
AuthChoices == {"None", "Password", "AppleRemoteDesktop"}
NoChoice == "none"

HsStart(reply, shared) ==
    [pc |-> "read_version", reply |-> reply, shared |-> shared, version |-> "none",
     security_types |-> <<>>, auth_methods |-> <<>>, auth_choice |-> "unset",
     out |-> <<>>, log |-> <<>>, err |-> NoErr, spawned |-> FALSE,
     size |-> <<0, 0>>, name |-> <<>>, format |-> new_rgb8888]

HsLog(op) == Append(hs.log, op)
HsFail(op, e) == [hs EXCEPT !.pc = "err", !.err = e, !.log = HsLog(op)]

\* a write to the stream: the bytes are on their way to the server
ClientWrites(bytes) == srv_in' = Stream(srv_in.buf \o bytes, srv_in.end)

\* let version = try!(protocol::Version::read_from(&mut stream));
HsReadVersion ==
    /\ hs.pc = "read_version"
    /\ LET r == Version_read_from(hs_in) IN
       /\ r.err # WouldBlock
       /\ hs_in' = r.rest
       /\ hs' = IF r.ok
                THEN [hs EXCEPT !.pc = "write_version", !.version = r.val.version,
                                !.log = HsLog("read Version")]
                ELSE HsFail("read Version", r.err)
    /\ UNCHANGED <<srv, srv_in>>

\* The version the client answers with: Client::from_tcp_stream echoes the
\* server's; hs.reply names another one for a client that answers lower.
reply_version == IF hs.reply = "echo" THEN hs.version ELSE hs.reply

\* try!(protocol::Version::write_to(&version, &mut stream));
HsWriteVersion ==
    /\ hs.pc = "write_version"
    /\ hs' = [hs EXCEPT !.pc = "read_security", !.version = reply_version,
                        !.out = @ \o Version_write_to(reply_version),
                        !.log = HsLog("write Version")]
    /\ ClientWrites(Version_write_to(reply_version))
    /\ UNCHANGED <<hs_in, srv>>

\* let security_types = match version { .. }
read_offered_types(version, st) ==
    IF version = "Rfb33"
    THEN Then(SecurityType_read_from(st), LAMBDA t, s1 :
         Ok([type |-> "list", items |-> IF t = SecType("Invalid") THEN <<>> ELSE <<t>>], s1))
    ELSE SecurityTypes_read_from(st)

\* mutant: only the first security type is looked at
auth_methods_first_only(types) ==
    IF types = <<>> THEN <<>> ELSE
    CASE Head(types).name = "None" -> <<"None">>
      [] Head(types).name = "VncAuthentication" -> <<"Password">>
      [] Head(types).name = "AppleRemoteDesktop" -> <<"AppleRemoteDesktop">>
      [] OTHER -> <<>>

\* for security_type in security_types { match security_type { .. } }
RECURSIVE auth_methods_of(_)
auth_methods_of(types) ==
    IF types = <<>> THEN <<>> ELSE
    LET rest == auth_methods_of(Tail(types)) IN
    CASE Head(types).name = "None" -> <<"None">> \o rest
      [] Head(types).name = "VncAuthentication" -> <<"Password">> \o rest
      [] Head(types).name = "AppleRemoteDesktop" -> <<"AppleRemoteDesktop">> \o rest
      [] OTHER -> rest

HsReadSecurity ==
    /\ hs.pc = "read_security"
    /\ LET r == read_offered_types(hs.version, hs_in) IN
       /\ r.err # WouldBlock
       /\ hs_in' = r.rest
       /\ hs' = IF r.ok
                THEN [hs EXCEPT !.pc = IF Len(r.val.items) = 0 THEN "read_reason" ELSE "auth",
                                !.security_types = r.val.items,
                                !.auth_methods = auth_methods_of(r.val.items),
                                !.log = HsLog("read SecurityTypes")]
                ELSE HsFail("read SecurityTypes", r.err)
    /\ UNCHANGED <<srv, srv_in>>

\* if security_types.len() == 0 { .. return Err(Error::Server(reason)) }
HsReadReason ==
    /\ hs.pc = "read_reason"
    /\ LET r == String_read_from(hs_in) IN
       /\ r.err # WouldBlock
       /\ hs_in' = r.rest
       /\ hs' = HsFail("read reason", IF r.ok THEN Server(r.val.text) ELSE r.err)
    /\ UNCHANGED <<srv, srv_in>>

\* mutant: the chosen security type is never written
after_auth_never_writes(version) == "auth_exchange"

\* match version { Rfb33 => (), _ => { .. SecurityType::write_to(..) } }
after_auth(version) == IF version = "Rfb33" THEN "auth_exchange" ELSE "write_type"

\* let auth_choice = try!(auth(&auth_methods).ok_or(Error::AuthenticationUnavailable));
\* the caller's function may answer anything.
HsAuth ==
    /\ hs.pc = "auth"
    /\ \E choice \in AuthChoices \cup {NoChoice} :
          hs' = IF choice = NoChoice
                THEN [HsFail("auth", AuthenticationUnavailable) EXCEPT !.auth_choice = choice]
                ELSE [hs EXCEPT !.pc = after_auth(hs.version),
                                !.auth_choice = choice, !.log = HsLog("auth")]
    /\ UNCHANGED <<hs_in, srv, srv_in>>

used_security_type(auth_choice) ==
    CASE auth_choice = "None" -> SecType("None")
      [] auth_choice = "Password" -> SecType("VncAuthentication")
      [] auth_choice = "AppleRemoteDesktop" -> SecType("AppleRemoteDesktop")

\* try!(protocol::SecurityType::write_to(&used_security_type, &mut stream));
HsWriteType ==
    /\ hs.pc = "write_type"
    /\ hs' = [hs EXCEPT !.pc = "auth_exchange",
                        !.out = @ \o SecurityType_write_to(used_security_type(hs.auth_choice)),
                        !.log = HsLog("write SecurityType")]
    /\ ClientWrites(SecurityType_write_to(used_security_type(hs.auth_choice)))
    /\ UNCHANGED <<hs_in, srv>>

\* security::des(&challenge, &password): 16 bytes, their values not modelled
des(challenge) == Zeros(16)
\* security::apple_auth(username, password, &handshake): AppleAuthResponse
\* { ciphertext: [u8; 128], pub_key } as written, the values not modelled
apple_auth(handshake) == Zeros(128 + handshake.key_length)

\* match auth_choice { Password => .., AppleRemoteDesktop => .., _ => () }
auth_exchange(choice, st) ==
    CASE choice = "Password" ->
           Then(read_exact(st, 16), LAMBDA challenge, s1 :
           Ok([type |-> "exchange", log |-> <<"read challenge", "write response">>,
               response |-> des(challenge.bytes)], s1))
      [] choice = "AppleRemoteDesktop" ->
           Then(AppleAuthHandshake_read_from(st), LAMBDA handshake, s1 :
           Ok([type |-> "exchange", log |-> <<"read challenge", "write response">>,
               response |-> apple_auth(handshake)], s1))
      [] OTHER -> Ok([type |-> "exchange", log |-> <<>>, response |-> <<>>], st)

HsAuthExchange ==
    /\ hs.pc = "auth_exchange"
    /\ LET r == auth_exchange(hs.auth_choice, hs_in) IN
       /\ r.err # WouldBlock
       /\ hs_in' = r.rest
       /\ IF r.ok
          THEN /\ hs' = [hs EXCEPT !.pc = "security_result", !.out = @ \o r.val.response,
                                   !.log = @ \o r.val.log]
               /\ ClientWrites(r.val.response)
          ELSE /\ hs' = HsFail("read challenge", r.err)
               /\ UNCHANGED srv_in
    /\ UNCHANGED srv

\* mutant: the SecurityResult is skipped for 3.3 only
skip_security_result_33_only(auth_choice, version) ==
    auth_choice = "None" /\ version = "Rfb33"

\* (AuthChoice::None, Rfb33) | (AuthChoice::None, Rfb37) => skip_security_result = true
skip_security_result(auth_choice, version) ==
    auth_choice = "None" /\ version \in {"Rfb33", "Rfb37"}

\* if !skip_security_result { match try!(SecurityResult::read_from(..)) { .. } }
HsSecurityResult ==
    /\ hs.pc = "security_result"
    /\ IF skip_security_result(hs.auth_choice, hs.version)
       THEN /\ hs' = [hs EXCEPT !.pc = "write_client_init"]
            /\ UNCHANGED hs_in
       ELSE LET r == SecurityResult_read_from(hs_in) IN
            /\ r.err # WouldBlock
            /\ hs_in' = r.rest
            /\ hs' = IF ~r.ok THEN HsFail("read SecurityResult", r.err)
                     ELSE IF r.val.result = "Succeeded"
                     THEN [hs EXCEPT !.pc = "write_client_init",
                                     !.log = HsLog("read SecurityResult")]
                     ELSE IF hs.version \in {"Rfb33", "Rfb37"}
                     THEN HsFail("read SecurityResult", AuthenticationFailure(<<>>))
                     ELSE [hs EXCEPT !.pc = "read_failure_reason",
                                     !.log = HsLog("read SecurityResult")]
    /\ UNCHANGED <<srv, srv_in>>

\* Rfb38: let reason = try!(String::read_from(..)); Err(AuthenticationFailure(reason))
HsReadFailureReason ==
    /\ hs.pc = "read_failure_reason"
    /\ LET r == String_read_from(hs_in) IN
       /\ r.err # WouldBlock
       /\ hs_in' = r.rest
       /\ hs' = HsFail("read reason", IF r.ok THEN AuthenticationFailure(r.val.text) ELSE r.err)
    /\ UNCHANGED <<srv, srv_in>>

\* try!(protocol::ClientInit::write_to(&client_init, &mut stream));
HsWriteClientInit ==
    /\ hs.pc = "write_client_init"
    /\ hs' = [hs EXCEPT !.pc = "read_server_init", !.out = @ \o ClientInit_write_to(hs.shared),
                        !.log = HsLog("write ClientInit")]
    /\ ClientWrites(ClientInit_write_to(hs.shared))
    /\ UNCHANGED <<hs_in, srv>>

\* let server_init = try!(protocol::ServerInit::read_from(&mut stream));
HsReadServerInit ==
    /\ hs.pc = "read_server_init"
    /\ LET r == ServerInit_read_from(hs_in) IN
       /\ r.err # WouldBlock
       /\ hs_in' = r.rest
       /\ hs' = IF r.ok
                THEN [hs EXCEPT !.pc = "spawn", !.format = r.val.pixel_format,
                                !.name = r.val.name,
                                !.size = <<r.val.framebuffer_width,
                                           r.val.framebuffer_height>>,
                                !.log = HsLog("read ServerInit")]
                ELSE HsFail("read ServerInit", r.err)
    /\ UNCHANGED <<srv, srv_in>>

\* thread::spawn(move || { .. Event::pump(..) .. }); Ok(Client { .. })
HsSpawn ==
    /\ hs.pc = "spawn"
    /\ hs' = [hs EXCEPT !.pc = "ok", !.spawned = TRUE, !.log = HsLog("spawn pump")]
    /\ UNCHANGED <<hs_in, srv, srv_in>>

(***************************************************************************)
(* The server of the handshake as a script: everything it will send, laid  *)
(* out in the RFB wire format, after which it closes the connection.       *)
(***************************************************************************)
MaxTypes == 2       \* longest list of security types a server offers

WireString(s) == U32(Len(s)) \o s
WireServerInit(si) ==
    U16(si.framebuffer_width) \o U16(si.framebuffer_height)
    \o PixelFormat_write_to(si.pixel_format) \o WireString(si.name)

ServerInits ==
    {[framebuffer_width |-> 640, framebuffer_height |-> 480, pixel_format |-> new_rgb8888,
      name |-> <<120>>],
     [framebuffer_width |-> 1, framebuffer_height |-> 258, pixel_format |-> Format16,
      name |-> <<>>]}

Reason == <<110, 111>>      \* "no"

ScriptTails ==
    {<<>>, <<"init">>, <<"ok", "init">>, <<"failed">>, <<"failed", "reason">>,
     <<"bad_result">>, <<"challenge", "ok", "init">>, <<"challenge", "failed", "reason">>,
     <<"challenge", "failed">>, <<"challenge", "ok">>, <<"apple", "ok", "init">>}

PartBytes(part, init) ==
    CASE part = "init" -> WireServerInit(init)
      [] part = "ok" -> <<0, 0, 0, 0>>
      [] part = "failed" -> <<0, 0, 0, 1>>
      [] part = "bad_result" -> <<0, 0, 0, 2>>
      [] part = "reason" -> WireString(Reason)
      [] part = "challenge" -> [i \in 1..16 |-> i]
      [] part = "apple" -> <<0, 2, 0, 1, 7, 9>>

RECURSIVE TailBytes(_, _)
TailBytes(tail, init) ==
    IF tail = <<>> THEN <<>> ELSE PartBytes(Head(tail), init) \o TailBytes(Tail(tail), init)

ScriptVersionBytes(ver) ==
    CASE ver = "Rfb33" -> VersionBytes(<<48, 48, 51>>)
      [] ver = "Rfb37" -> VersionBytes(<<48, 48, 55>>)
      [] ver = "Rfb38" -> VersionBytes(<<48, 48, 56>>)
      [] ver = "Apple" -> VersionBytes(<<56, 56, 57>>)
      [] OTHER -> VersionBytes(<<48, 48, 50>>)

\* The server refuses the connection: Invalid for 3.3, an empty list otherwise.
Refuses(script) ==
    /\ script.ver # "bad"
    /\ IF script.ver = "Rfb33" THEN script.types = <<0>> ELSE script.types = <<>>

\* 3.3: the one type the server dictates, a u32 (script.wide) as RFB lays it
\* out or the single byte SecurityType::write_to produces; 3.7 and later: a
\* u8 count and that many u8 types.  A refusal is followed by the reason.
SecurityBytes(script) ==
    (IF script.ver = "Rfb33"
     THEN (IF script.wide THEN <<0, 0, 0>> ELSE <<>>) \o script.types
     ELSE U8(Len(script.types)) \o script.types)
    \o (IF Refuses(script) THEN WireString(Reason) ELSE <<>>)

ScriptBytes(script) ==
    ScriptVersionBytes(script.ver) \o SecurityBytes(script)
    \o TailBytes(script.tail, script.init)

Scripts ==
    {s \in [ver : {"Rfb33", "Rfb37", "Rfb38", "Apple", "bad"},
            types : SeqsUpTo({1, 2, 5, 30}, MaxTypes) \cup {<<0>>},
            wide : BOOLEAN, tail : ScriptTails, init : ServerInits] :
        /\ s.ver = "Rfb33" => Len(s.types) = 1
        /\ s.ver # "Rfb33" => (~s.wide /\ s.types # <<0>>)
        /\ s.ver = "bad" => (s.types = <<>> /\ s.tail = <<>>)}

HandshakeInit ==
    /\ SessionInit
    /\ CodecIdle
    /\ PxIdle
    /\ \E script \in Scripts, shared \in BOOLEAN :
          /\ hs = HsStart("echo", shared)
          /\ hs_in = Stream(ScriptBytes(script), "eof")
          /\ srv = [mode |-> "script", script |-> script]
          /\ srv_in = Stream(<<>>, "open")

HandshakeNext ==
    \/ (HsReadVersion /\ UNCHANGED beside_hs)
    \/ (HsWriteVersion /\ UNCHANGED beside_hs)
    \/ (HsReadSecurity /\ UNCHANGED beside_hs)
    \/ (HsReadReason /\ UNCHANGED beside_hs)
    \/ (HsAuth /\ UNCHANGED beside_hs)
    \/ (HsWriteType /\ UNCHANGED beside_hs)
    \/ (HsAuthExchange /\ UNCHANGED beside_hs)
    \/ (HsSecurityResult /\ UNCHANGED beside_hs)
    \/ (HsReadFailureReason /\ UNCHANGED beside_hs)
    \/ (HsWriteClientInit /\ UNCHANGED beside_hs)
    \/ (HsReadServerInit /\ UNCHANGED beside_hs)
    \/ (HsSpawn /\ UNCHANGED beside_hs)

HandshakeSpec == HandshakeInit /\ [][HandshakeNext]_vars

(***************************************************************************)
(* Properties of the client handshake (HandshakeSpec).                     *)
(***************************************************************************)
InLog(op) == \E i \in DOMAIN hs.log : hs.log[i] = op
HsFinished == hs.pc \in {"ok", "err"}

\* The place of each operation in the order the protocol prescribes.
Rank(op) ==
    CASE op = "read Version" -> 1
      [] op = "write Version" -> 2
      [] op = "read SecurityTypes" -> 3
      [] op = "auth" -> 4
      [] op = "write SecurityType" -> 5
      [] op = "read challenge" -> 6
      [] op = "write response" -> 7
      [] op = "read SecurityResult" -> 8
      [] op = "write ClientInit" -> 9
      [] op = "read ServerInit" -> 10
      [] op = "spawn pump" -> 11
      [] OTHER -> 12

\* What a server that follows the protocol sends after the security types.
ExpectedTail(choice, version) ==
    CASE choice = "Password" -> <<"challenge", "ok", "init">>
      [] choice = "AppleRemoteDesktop" -> <<"apple", "ok", "init">>
      [] choice = "None" /\ version = "Rfb38" -> <<"ok", "init">>
      [] OTHER -> <<"init">>

\* C11: the client's reads and writes follow the order read Version, write
\* Version, read security types, write the chosen type (3.7 and later only),
\* authentication exchange, read SecurityResult, write ClientInit, read
\* ServerInit; the pump is spawned only after ServerInit was read; a
\* successful handshake went through all of these, and against a server
\* that follows the protocol size and name are those of its ServerInit.
\* Scenario S1: 3.8 and None give the writes version, 0x01, 0x01, the size
\* (640, 480) and the name "x".
C11_HandshakeOrder ==
    /\ \A i, j \in DOMAIN hs.log : i < j => Rank(hs.log[i]) < Rank(hs.log[j])
    /\ hs.spawned => (InLog("read ServerInit") /\ hs.pc = "ok")
    /\ hs.pc = "ok" =>
          /\ \A op \in {"read Version", "write Version", "read SecurityTypes", "auth",
                        "write ClientInit", "read ServerInit", "spawn pump"} : InLog(op)
          /\ InLog("write SecurityType") <=> hs.version # "Rfb33"
          /\ InLog("read challenge") <=> hs.auth_choice # "None"
          /\ InLog("write response") <=> hs.auth_choice # "None"
          /\ srv.script.tail = ExpectedTail(hs.auth_choice, hs.version) =>
                /\ hs.size = <<srv.script.init.framebuffer_width,
                               srv.script.init.framebuffer_height>>
                /\ hs.name = srv.script.init.name
          /\ (/\ srv.script.ver = "Rfb38" /\ srv.script.types = <<1>>
              /\ srv.script.tail = <<"ok", "init">> /\ hs.auth_choice = "None"
              /\ hs.shared /\ srv.script.init.framebuffer_width = 640) =>
                /\ hs.out = VersionBytes(<<48, 48, 56>>) \o <<1, 1>>
                /\ hs.size = <<640, 480>>
                /\ hs.name = <<120>>

C11_Witness ==
    /\ hs.pc = "ok"
    /\ srv.script.ver = "Rfb38"
    /\ srv.script.types = <<1>>
    /\ hs.auth_choice = "None"
    /\ hs.shared
    /\ hs.size = <<640, 480>>
    /\ hs.log = <<"read Version", "write Version", "read SecurityTypes", "auth",
                  "write SecurityType", "read SecurityResult", "write ClientInit",
                  "read ServerInit", "spawn pump">>

\* C12: for 3.3 the security type is one u32: against a server that sends
\* "RFB 003.003\n", the u32 0 (Invalid) and the reason "no", the handshake
\* fails with Server("no").
C12_Refused33 ==
    (/\ srv.script.ver = "Rfb33" /\ srv.script.wide /\ srv.script.types = <<0>>
     /\ HsFinished) => hs.err = Server(Reason)

\* C13: when the server refuses the connection the handshake fails with
\* Server(reason), the reason being the one the server sent; the client has
\* written nothing but its Version reply, has not called the auth function
\* and has spawned no pump.
C13_Refusal ==
    Refuses(srv.script) =>
        /\ ~InLog("auth")
        /\ ~hs.spawned
        /\ hs.out = <<>> \/ (InLog("write Version") /\ hs.out = Version_write_to(hs.version))
        /\ HsFinished => hs.err = Server(Reason)

\* The methods a list of security types offers, in its order.
RECURSIVE OfferedMethods(_)
OfferedMethods(types) ==
    IF types = <<>> THEN <<>> ELSE
    (CASE Head(types) = 1 -> <<"None">>
       [] Head(types) = 2 -> <<"Password">>
       [] Head(types) = 30 -> <<"AppleRemoteDesktop">>
       [] OTHER -> <<>>) \o OfferedMethods(Tail(types))

\* C14: the auth function is shown the methods None, Password and
\* AppleRemoteDesktop the server offered, in the server's order and nothing
\* else; when it answers none the handshake fails with
\* AuthenticationUnavailable and the client has written its Version reply
\* and nothing more.
C14_AuthUnavailable ==
    /\ hs.auth_choice # "unset" => hs.auth_methods = OfferedMethods(srv.script.types)
    /\ hs.auth_choice = NoChoice =>
          /\ hs.pc = "err"
          /\ hs.err = AuthenticationUnavailable
          /\ hs.out = Version_write_to(hs.version)
          /\ ~hs.spawned

C14_Witness ==
    /\ hs.auth_choice = NoChoice
    /\ hs.pc = "err"
    /\ srv.script.types = <<5, 2>>
    /\ hs.auth_methods = <<"Password">>

\* C15: past the authentication exchange the client reads a SecurityResult
\* exactly when it is not the case that the version is 3.3 or 3.7 and the
\* choice is None.  A Failed result ends the handshake with
\* AuthenticationFailure(reason), the reason read from the stream for 3.8
\* only and empty for 3.3 and 3.7, and ClientInit is never written.
C15_SecurityResult ==
    /\ (InLog("read SecurityResult") \/ InLog("write ClientInit")) =>
          (InLog("read SecurityResult") <=>
              ~(hs.version \in {"Rfb33", "Rfb37"} /\ hs.auth_choice = "None"))
    /\ hs.err.kind = "AuthenticationFailure" =>
          /\ ~InLog("write ClientInit")
          /\ InLog("read reason") <=> hs.version = "Rfb38"
          /\ hs.version # "Rfb38" => hs.err.reason = <<>>
    /\ (/\ HsFinished /\ hs.auth_choice = "Password"
        /\ srv.script.tail = <<"challenge", "failed", "reason">>
        /\ (srv.script.ver = "Rfb33" => ~srv.script.wide)) =>
          /\ hs.err = AuthenticationFailure(IF hs.version = "Rfb38" THEN Reason ELSE <<>>)
          /\ ~InLog("write ClientInit")

C15_Witness ==
    /\ hs.err = AuthenticationFailure(Reason)
    /\ hs.version = "Rfb38"
    /\ hs.auth_choice = "Password"
    /\ Last(hs.log) = "read reason"


(***************************************************************************)
(* server.rs, Server::from_tcp_stream: one action per read or write.  What *)
(* the server writes arrives in hs_in, what it reads comes from srv_in.    *)
(***************************************************************************)
SrvStart(init) ==
    [mode |-> "live", pc |-> "write_version", init |-> init, version |-> "none",
     out |-> <<>>, log |-> <<>>, err |-> NoErr, shared |-> FALSE]

SrvLog(op) == Append(srv.log, op)
SrvStep(pc, op) == [srv EXCEPT !.pc = pc, !.log = SrvLog(op)]
SrvWrote(pc, op, bytes) == [srv EXCEPT !.pc = pc, !.log = SrvLog(op), !.out = @ \o bytes]
\* try! returns the error; the stream, owned by the function, is closed
SrvFail(op, e) == [srv EXCEPT !.pc = "err", !.err = e, !.log = SrvLog(op)]
ServerWrites(bytes) == hs_in' = Stream(hs_in.buf \o bytes, hs_in.end)
ServerCloses == hs_in' = Stream(hs_in.buf, "eof")

\* try!(protocol::Version::Rfb38.write_to(&mut stream));
SrvWriteVersion ==
    /\ srv.pc = "write_version"
    /\ srv' = SrvWrote("read_version", "write Version", Version_write_to("Rfb38"))
    /\ ServerWrites(Version_write_to("Rfb38"))
    /\ UNCHANGED <<hs, srv_in>>

\* let version = try!(protocol::Version::read_from(&mut stream));
SrvReadVersion ==
    /\ srv.pc = "read_version"
    /\ LET r == Version_read_from(srv_in) IN
       /\ r.err # WouldBlock
       /\ srv_in' = r.rest
       /\ IF r.ok
          THEN /\ srv' = [SrvStep("write_security", "read Version")
                             EXCEPT !.version = r.val.version]
               /\ UNCHANGED hs_in
          ELSE /\ srv' = SrvFail("read Version", r.err)
               /\ ServerCloses
    /\ UNCHANGED hs

\* match version { Rfb33 => SecurityType::None.write_to(..),
\*                 _ => SecurityTypes(vec![SecurityType::None]).write_to(..) }
offered_security(version) ==
    IF version = "Rfb33"
    THEN SecurityType_write_to(SecType("None"))
    ELSE SecurityTypes_write_to(<<SecType("None")>>)

SrvWriteSecurity ==
    /\ srv.pc = "write_security"
    /\ srv' = SrvWrote("read_security_type", "write SecurityTypes",
                       offered_security(srv.version))
    /\ ServerWrites(offered_security(srv.version))
    /\ UNCHANGED <<hs, srv_in>>

\* let _security_type = try!(protocol::SecurityType::read_from(&mut stream));
SrvReadSecurityType ==
    /\ srv.pc = "read_security_type"
    /\ LET r == SecurityType_read_from(srv_in) IN
       /\ r.err # WouldBlock
       /\ srv_in' = r.rest
       /\ IF r.ok
          THEN /\ srv' = SrvStep("write_security_result", "read SecurityType")
               /\ UNCHANGED hs_in
          ELSE /\ srv' = SrvFail("read SecurityType", r.err)
               /\ ServerCloses
    /\ UNCHANGED hs

\* try!(protocol::SecurityResult::Succeeded.write_to(&mut stream));
SrvWriteSecurityResult ==
    /\ srv.pc = "write_security_result"
    /\ srv' = SrvWrote("read_client_init", "write SecurityResult",
                       SecurityResult_write_to("Succeeded"))
    /\ ServerWrites(SecurityResult_write_to("Succeeded"))
    /\ UNCHANGED <<hs, srv_in>>

\* let client_init = try!(protocol::ClientInit::read_from(&mut stream));
SrvReadClientInit ==
    /\ srv.pc = "read_client_init"
    /\ LET r == ClientInit_read_from(srv_in) IN
       /\ r.err # WouldBlock
       /\ srv_in' = r.rest
       /\ IF r.ok
          THEN /\ srv' = [SrvStep("write_server_init", "read ClientInit")
                             EXCEPT !.shared = r.val.shared]
               /\ UNCHANGED hs_in
          ELSE /\ srv' = SrvFail("read ClientInit", r.err)
               /\ ServerCloses
    /\ UNCHANGED hs

\* try!(server_init.write_to(&mut stream)); Ok((Server { .. }, client_init.shared))
SrvWriteServerInit ==
    /\ srv.pc = "write_server_init"
    /\ srv' = SrvWrote("ok", "write ServerInit", ServerInit_write_to(srv.init))
    /\ ServerWrites(ServerInit_write_to(srv.init))
    /\ UNCHANGED <<hs, srv_in>>

\* Client::from_tcp_stream returned an error: its stream is closed
HsDropStream ==
    /\ hs.pc = "err"
    /\ srv_in.end = "open"
    /\ srv_in' = Stream(srv_in.buf, "eof")
    /\ UNCHANGED <<hs, hs_in, srv>>

(***************************************************************************)
(* A client of this library and Server::from_tcp_stream on the two ends of *)
(* one connection.  The client answers the server's version with the one   *)
(* hs.reply names.  The server offers None only and never refuses, so the  *)
(* client's two reads of a reason do not occur here.                       *)
(***************************************************************************)
Replies == {"echo", "Rfb33", "Rfb37", "Rfb38"}

PairInit ==
    /\ SessionInit
    /\ CodecIdle
    /\ PxIdle
    /\ \E reply \in Replies, shared \in BOOLEAN, init \in ServerInits :
          /\ hs = HsStart(reply, shared)
          /\ hs_in = Stream(<<>>, "open")
          /\ srv = SrvStart(init)
          /\ srv_in = Stream(<<>>, "open")

PairNext ==
    \/ (SrvWriteVersion /\ UNCHANGED beside_hs)
    \/ (SrvReadVersion /\ UNCHANGED beside_hs)
    \/ (SrvWriteSecurity /\ UNCHANGED beside_hs)
    \/ (SrvReadSecurityType /\ UNCHANGED beside_hs)
    \/ (SrvWriteSecurityResult /\ UNCHANGED beside_hs)
    \/ (SrvReadClientInit /\ UNCHANGED beside_hs)
    \/ (SrvWriteServerInit /\ UNCHANGED beside_hs)
    \/ (HsReadVersion /\ UNCHANGED beside_hs)
    \/ (HsWriteVersion /\ UNCHANGED beside_hs)
    \/ (HsReadSecurity /\ UNCHANGED beside_hs)
    \/ (HsAuth /\ UNCHANGED beside_hs)
    \/ (HsWriteType /\ UNCHANGED beside_hs)
    \/ (HsAuthExchange /\ UNCHANGED beside_hs)
    \/ (HsSecurityResult /\ UNCHANGED beside_hs)
    \/ (HsWriteClientInit /\ UNCHANGED beside_hs)
    \/ (HsReadServerInit /\ UNCHANGED beside_hs)
    \/ (HsSpawn /\ UNCHANGED beside_hs)
    \/ (HsDropStream /\ UNCHANGED beside_hs)

PairSpec == PairInit /\ [][PairNext]_vars

(***************************************************************************)
(* Properties of the server handshake and of the pair (PairSpec).          *)
(***************************************************************************)
InSrvLog(op) == \E i \in DOMAIN srv.log : srv.log[i] = op

\* C16: Server::from_tcp_stream, which offers None only, sends no
\* SecurityResult to a client that answered 3.3 or 3.7 and sends one to a
\* client that answered 3.8.
C16_ServerSecurityResult ==
    srv.pc \in {"read_client_init", "write_server_init", "ok"} =>
        (InSrvLog("write SecurityResult") <=> srv.version = "Rfb38")

\* The client keeps to the choice None.
ChoosesNone == hs.auth_choice \in {"unset", "None"}

\* C17: whichever of 3.3, 3.7 and 3.8 the client answers with, a client that
\* chooses None and Server::from_tcp_stream complete the handshake: no state
\* is reached where both sides wait for ever, every byte written has been
\* read by the time both are done, the server returns the client's shared flag
\* and the client has the server's width, height, pixel format and name.
C17_Interoperates ==
    ChoosesNone =>
        /\ (~ENABLED PairNext) => (hs.pc = "ok" /\ srv.pc = "ok")
        /\ hs.pc \notin {"err"} /\ srv.pc # "err"
        /\ (hs.pc = "ok" /\ srv.pc = "ok") => (hs_in.buf = <<>> /\ srv_in.buf = <<>>)
        /\ srv.pc = "ok" => srv.shared = hs.shared
        /\ hs.pc \in {"spawn", "ok"} =>
              /\ hs.size = <<srv.init.framebuffer_width, srv.init.framebuffer_height>>
              /\ hs.format = srv.init.pixel_format
              /\ hs.name = srv.init.name

(***************************************************************************)
(* lib.rs, Proxy::from_tcp_streams: the handshake relayed between a server *)
(* (px_srv holds what it sends) and a client (px_cli), one action per      *)
(* message relayed.  px.to_client and px.to_server are what the proxy has  *)
(* written to either side.                                                 *)
(***************************************************************************)
PxStart(script) ==
    [pc |-> "server_version", script |-> script, client_version |-> "none",
     security_types |-> <<>>, offer |-> <<>>, used_security_type |-> SecType("Invalid"),
     format |-> new_rgb8888, to_client |-> <<>>, to_server |-> <<>>, err |-> NoErr,
     c2s |-> "idle", s2c |-> "idle", c2s_result |-> NoErr, s2c_result |-> NoErr,
     shut |-> FALSE, read |-> <<>>, written |-> <<>>, forwarded |-> <<>>,
     s2c_in |-> <<>>, relayed |-> <<>>, join |-> NoVal]

\* try! returns the error
PxFail(e) == [px EXCEPT !.pc = "err", !.err = e]

\* let server_version = try!(Version::read_from(&mut server_stream));
\* try!(Version::write_to(&server_version, &mut client_stream));
PxServerVersion ==
    /\ px.pc = "server_version"
    /\ LET r == Version_read_from(px_srv) IN
       /\ px_srv' = r.rest
       /\ px' = IF r.ok
                THEN [px EXCEPT !.pc = "client_version",
                                !.to_client = @ \o Version_write_to(r.val.version)]
                ELSE PxFail(r.err)
    /\ UNCHANGED px_cli

\* let client_version = try!(Version::read_from(&mut client_stream));
\* try!(Version::write_to(&client_version, &mut server_stream));
PxClientVersion ==
    /\ px.pc = "client_version"
    /\ LET r == Version_read_from(px_cli) IN
       /\ px_cli' = r.rest
       /\ px' = IF r.ok
                THEN [px EXCEPT !.pc = "security_types", !.client_version = r.val.version,
                                !.to_server = @ \o Version_write_to(r.val.version)]
                ELSE PxFail(r.err)
    /\ UNCHANGED px_srv

\* mutant: VNC authentication passes the filter as well
security_type_supported_with_vnc(security_type) ==
    security_type.name \in {"None", "VncAuthentication"}

\* fn security_type_supported(security_type: &SecurityType) -> bool
security_type_supported(security_type) == security_type.name = "None"

\* Vec::retain with security_type_supported
RECURSIVE retain_security_types(_)
retain_security_types(l) ==
    IF l = <<>> THEN <<>>
    ELSE (IF security_type_supported(Head(l)) THEN <<Head(l)>> ELSE <<>>)
         \o retain_security_types(Tail(l))

\* let security_types = match client_version { .. }: the types kept and the
\* bytes written to the client
proxy_security_types(client_version, st) ==
    IF client_version = "Rfb33"
    THEN Then(SecurityType_read_from(st), LAMBDA t, s1 :
         Ok([type |-> "offer",
             items |-> IF security_type_supported(t) THEN <<t>> ELSE <<>>,
             bytes |-> SecurityType_write_to(IF security_type_supported(t) THEN t
                                             ELSE SecType("Invalid"))], s1))
    ELSE Then(SecurityTypes_read_from(st), LAMBDA l, s1 :
         Ok([type |-> "offer",
             items |-> retain_security_types(l.items),
             bytes |-> SecurityTypes_write_to(retain_security_types(l.items))], s1))

PxSecurityTypes ==
    /\ px.pc = "security_types"
    /\ LET r == proxy_security_types(px.client_version, px_srv) IN
       /\ px_srv' = r.rest
       /\ px' = IF r.ok
                THEN [px EXCEPT !.pc = IF r.val.items = <<>> THEN "refused" ELSE "used_type",
                                !.security_types = r.val.items,
                                !.offer = r.val.bytes,
                                !.to_client = @ \o r.val.bytes]
                ELSE PxFail(r.err)
    /\ UNCHANGED px_cli

\* if security_types.len() == 0 { reason relayed; return Err(Error::Server(reason)) }
PxRefused ==
    /\ px.pc = "refused"
    /\ LET r == String_read_from(px_srv) IN
       /\ px_srv' = r.rest
       /\ px' = IF r.ok
                THEN [PxFail(Server(r.val.text))
                         EXCEPT !.to_client = @ \o String_write_to(r.val.text)]
                ELSE PxFail(r.err)
    /\ UNCHANGED px_cli

\* let used_security_type = match client_version { Rfb33 => security_types[0], _ => .. }
PxUsedType ==
    /\ px.pc = "used_type"
    /\ IF px.client_version = "Rfb33"
       THEN /\ px' = [px EXCEPT !.pc = "security_result",
                                !.used_security_type = px.security_types[1]]
            /\ UNCHANGED px_cli
       ELSE LET r == SecurityType_read_from(px_cli) IN
            /\ px_cli' = r.rest
            /\ px' = IF r.ok
                     THEN [px EXCEPT !.pc = "security_result", !.used_security_type = r.val,
                                     !.to_server = @ \o SecurityType_write_to(r.val)]
                     ELSE PxFail(r.err)
    /\ UNCHANGED px_srv

\* (SecurityType::None, Rfb33) | (SecurityType::None, Rfb37) => skip_security_result = true
proxy_skip_security_result(used, client_version) ==
    used.name = "None" /\ client_version \in {"Rfb33", "Rfb37"}

\* if !skip_security_result { .. }: the result relayed, and the reason of a
\* failure for 3.8
proxy_security_result(client_version, st) ==
    Then(SecurityResult_read_from(st), LAMBDA res, s1 :
    IF res.result = "Succeeded"
    THEN Ok([type |-> "relay", bytes |-> SecurityResult_write_to("Succeeded"),
             failed |-> FALSE, reason |-> <<>>], s1)
    ELSE IF client_version \in {"Rfb33", "Rfb37"}
    THEN Ok([type |-> "relay", bytes |-> SecurityResult_write_to("Failed"),
             failed |-> TRUE, reason |-> <<>>], s1)
    ELSE LET r2 == String_read_from(s1) IN
         IF r2.ok
         THEN Ok([type |-> "relay",
                  bytes |-> SecurityResult_write_to("Failed") \o String_write_to(r2.val.text),
                  failed |-> TRUE, reason |-> r2.val.text], r2.rest)
         ELSE [r2 EXCEPT !.val = [type |-> "relay",
                                  bytes |-> SecurityResult_write_to("Failed"),
                                  failed |-> TRUE, reason |-> <<>>]])

PxSecurityResult ==
    /\ px.pc = "security_result"
    /\ IF proxy_skip_security_result(px.used_security_type, px.client_version)
       THEN /\ px' = [px EXCEPT !.pc = "client_init"]
            /\ UNCHANGED px_srv
       ELSE LET r == proxy_security_result(px.client_version, px_srv) IN
            /\ px_srv' = r.rest
            /\ px' = IF r.ok /\ ~r.val.failed
                     THEN [px EXCEPT !.pc = "client_init", !.to_client = @ \o r.val.bytes]
                     ELSE IF r.ok
                     THEN [PxFail(AuthenticationFailure(r.val.reason))
                              EXCEPT !.to_client = @ \o r.val.bytes]
                     ELSE IF r.val.type = "relay"
                     THEN [PxFail(r.err) EXCEPT !.to_client = @ \o r.val.bytes]
                     ELSE PxFail(r.err)
    /\ UNCHANGED px_cli

\* let client_init = try!(ClientInit::read_from(&mut client_stream));
\* try!(ClientInit::write_to(&client_init, &mut server_stream));
PxClientInit ==
    /\ px.pc = "client_init"
    /\ LET r == ClientInit_read_from(px_cli) IN
       /\ px_cli' = r.rest
       /\ px' = IF r.ok
                THEN [px EXCEPT !.pc = "server_init",
                                !.to_server = @ \o ClientInit_write_to(r.val.shared)]
                ELSE PxFail(r.err)
    /\ UNCHANGED px_srv

\* let server_init = try!(ServerInit::read_from(&mut server_stream));
\* try!(ServerInit::write_to(&server_init, &mut client_stream));
PxServerInit ==
    /\ px.pc = "server_init"
    /\ LET r == ServerInit_read_from(px_srv) IN
       /\ px_srv' = r.rest
       /\ px' = IF r.ok
                THEN [px EXCEPT !.pc = "spawn", !.format = r.val.pixel_format,
                                !.to_client = @ \o ServerInit_write_to(r.val)]
                ELSE PxFail(r.err)
    /\ UNCHANGED px_cli

\* Ok(Proxy { c2s_thread: thread::spawn(..), s2c_thread: thread::spawn(..) })
PxSpawn ==
    /\ px.pc = "spawn"
    /\ px' = [px EXCEPT !.pc = "relay", !.c2s = "running", !.s2c = "running"]
    /\ UNCHANGED <<px_srv, px_cli>>

(***************************************************************************)
(* The two relay threads, one action per turn of their loops, and join.    *)
(***************************************************************************)
\* mutant: Hextile passes the filter as well
encoding_supported_with_hextile(encoding) ==
    encoding.name \in {"Raw", "CopyRect", "Hextile", "Zrle", "Cursor", "DesktopSize"}

\* fn encoding_supported(encoding: &protocol::Encoding) -> bool
encoding_supported(encoding) ==
    encoding.name \in {"Raw", "CopyRect", "Zrle", "Cursor", "DesktopSize"}

\* encodings.retain(encoding_supported)
RECURSIVE retain_encodings(_)
retain_encodings(l) ==
    IF l = <<>> THEN <<>>
    ELSE (IF encoding_supported(Head(l)) THEN <<Head(l)>> ELSE <<>>)
         \o retain_encodings(Tail(l))

\* match message { SetEncodings(ref mut encodings) => .., .. }
forwarded_c2s(message) ==
    IF message.type = "SetEncodings"
    THEN [message EXCEPT !.encodings = retain_encodings(@)]
    ELSE message

\* mutant: the thread ends without shutting the stream down
relay_shutdown_skipped(st) == st

\* stream.shutdown(Shutdown::Both) at the end of a relay thread
relay_shutdown(st) == Stream(st.buf, "eof")

\* let _ = c2s_server_stream.shutdown(Shutdown::Both);
\* let _ = c2s_client_stream.shutdown(Shutdown::Both);
\* what is buffered can still be read, then the streams are at their end
ShutdownBoth ==
    /\ px_srv' = relay_shutdown(px_srv)
    /\ px_cli' = relay_shutdown(px_cli)

\* a write to a socket that was shut down fails
BrokenPipe == Io("BrokenPipe")

\* fn forward_c2s: one turn of the loop; the thread ends with the error.
PxForwardC2S ==
    /\ px.pc = "relay"
    /\ px.c2s = "running"
    /\ LET r == C2S_read_from(px_cli) IN
       IF ~r.ok
       THEN /\ px' = [px EXCEPT !.c2s = "done", !.c2s_result = r.err, !.shut = TRUE]
            /\ px_srv' = relay_shutdown(px_srv)
            /\ px_cli' = relay_shutdown(r.rest)
       ELSE IF r.val.type = "SetPixelFormat"
       THEN \* panic!("proxying SetPixelFormat is not implemented!")
            /\ px' = [px EXCEPT !.c2s = "panicked", !.read = Append(@, r.val)]
            /\ px_cli' = r.rest
            /\ UNCHANGED px_srv
       ELSE IF px.shut
       THEN /\ px' = [px EXCEPT !.c2s = "done", !.c2s_result = BrokenPipe,
                                !.read = Append(@, r.val)]
            /\ px_srv' = relay_shutdown(px_srv)
            /\ px_cli' = relay_shutdown(r.rest)
       ELSE /\ px' = [px EXCEPT !.read = Append(@, r.val),
                                !.written = Append(@, forwarded_c2s(r.val)),
                                !.forwarded = @ \o C2S_write_to(forwarded_c2s(r.val)),
                                !.to_server = @ \o C2S_write_to(forwarded_c2s(r.val))]
            /\ px_cli' = r.rest
            /\ UNCHANGED px_srv

RectangleHeader_write_to(r) ==
    U16(r.x_position) \o U16(r.y_position) \o U16(r.width) \o U16(r.height)
    \o Encoding_write_to(r.encoding)

\* the bytes of one rectangle as forward_s2c copies them into its buffer
forward_rectangle(st, fmt) ==
    Then(RectangleHeader_read_from(st), LAMBDA rectangle, s1 :
    CASE rectangle.encoding.name = "Raw" ->
           Then(read_exact(s1, rectangle.width * rectangle.height
                               * (fmt.bits_per_pixel \div 8)), LAMBDA pixels, s2 :
           Ok([type |-> "bytes",
               bytes |-> RectangleHeader_write_to(rectangle) \o pixels.bytes], s2))
      [] rectangle.encoding.name = "CopyRect" ->
           Then(read_exact(s1, 4), LAMBDA copy_rect, s2 :
           Ok([type |-> "bytes",
               bytes |-> RectangleHeader_write_to(rectangle) \o copy_rect.bytes], s2))
      [] rectangle.encoding.name = "Zrle" ->
           Then(read_exact(s1, 4), LAMBDA l, s2 :
           Then(read_exact(s2, GetU32(l.bytes)), LAMBDA zrle, s3 :
           Ok([type |-> "bytes",
               bytes |-> RectangleHeader_write_to(rectangle)
                         \o U32(Len(zrle.bytes)) \o zrle.bytes], s3)))
      [] rectangle.encoding.name = "Cursor" ->
           Then(read_exact(s1, rectangle.width * rectangle.height
                               * (fmt.bits_per_pixel \div 8)), LAMBDA pixels, s2 :
           Then(read_exact(s2, ((rectangle.width + 7) \div 8) * rectangle.height),
                LAMBDA mask_bits, s3 :
           Ok([type |-> "bytes",
               bytes |-> RectangleHeader_write_to(rectangle)
                         \o pixels.bytes \o mask_bits.bytes], s3)))
      [] rectangle.encoding.name = "DesktopSize" ->
           Ok([type |-> "bytes", bytes |-> RectangleHeader_write_to(rectangle)], s1)
      [] OTHER -> Fail(Unexpected("encoding"), s1))

\* for _ in 0..count { .. }
RECURSIVE forward_rectangles(_, _, _, _)
forward_rectangles(st, fmt, count, buffer) ==
    IF count = 0 THEN Ok([type |-> "bytes", bytes |-> buffer], st) ELSE
    Then(forward_rectangle(st, fmt), LAMBDA rect, s1 :
         forward_rectangles(s1, fmt, count - 1, buffer \o rect.bytes))

\* one turn of the loop of forward_s2c up to client_stream.write_all(&buffer)
forward_s2c_message(st, fmt) ==
    Then(S2C_read_from(st), LAMBDA message, s1 :
    forward_rectangles(s1, fmt,
                       IF message.type = "FramebufferUpdate" THEN message.count ELSE 0,
                       S2C_write_to(message)))

\* fn forward_s2c: one turn of the loop; the thread ends with the error.
PxForwardS2C ==
    /\ px.pc = "relay"
    /\ px.s2c = "running"
    /\ LET r == forward_s2c_message(px_srv, px.format) IN
       IF ~r.ok
       THEN /\ px' = [px EXCEPT !.s2c = "done", !.s2c_result = r.err, !.shut = TRUE]
            /\ px_srv' = relay_shutdown(r.rest)
            /\ px_cli' = relay_shutdown(px_cli)
       ELSE IF px.shut
       THEN /\ px' = [px EXCEPT !.s2c = "done", !.s2c_result = BrokenPipe]
            /\ px_srv' = relay_shutdown(r.rest)
            /\ px_cli' = relay_shutdown(px_cli)
       ELSE /\ px' = [px EXCEPT !.s2c_in = @ \o Take(px_srv.buf, Len(px_srv.buf)
                                                                   - Len(r.rest.buf)),
                                !.relayed = @ \o r.val.bytes,
                                !.to_client = @ \o r.val.bytes]
            /\ px_srv' = r.rest
            /\ UNCHANGED px_cli

\* Result::and
Result_and(a, b) == IF a = NoErr THEN b ELSE a

\* match c2s_result.and(s2c_result) { Err(Error::Disconnected) => Ok(()), result => result }
join_result(c2s_result, s2c_result) ==
    IF Result_and(c2s_result, s2c_result) = Disconnected
    THEN NoErr
    ELSE Result_and(c2s_result, s2c_result)

\* pub fn join(self): c2s_thread.join().unwrap() panics with a thread that
\* panicked, before the other thread is waited for; otherwise both threads
\* are over
PxJoin ==
    /\ px.pc = "relay"
    /\ px.c2s = "panicked" \/ (px.c2s = "done" /\ px.s2c = "done")
    /\ px' = [px EXCEPT !.pc = "joined",
                        !.join = IF px.c2s = "panicked"
                                 THEN [type |-> "panic"]
                                 ELSE [type |-> "result",
                                       result |-> join_result(px.c2s_result, px.s2c_result)]]
    /\ UNCHANGED <<px_srv, px_cli>>

(***************************************************************************)
(* The two peers of the proxy as scripts: what each will send, after which *)
(* it closes (or the connection fails).                                    *)
(***************************************************************************)
\* The handshakes: the version the client answers, the security types the
\* server offers, the type the client picks, the server's verdict.
ProxyHandshakes ==
    {h \in [cver : {"Rfb33", "Rfb37", "Rfb38"},
            types : SeqsUpTo({1, 2, 5, 30}, MaxTypes) \cup {<<0>>},
            wide : BOOLEAN, ctype : {1, 2}, result : {"none", "ok", "failed"}] :
        /\ h.cver = "Rfb33" => (Len(h.types) = 1 /\ h.ctype = 1)
        /\ h.cver # "Rfb33" => (~h.wide /\ h.types # <<0>>)
        /\ h.result = "none" <=> (h.ctype = 1 /\ h.cver \in {"Rfb33", "Rfb37"})}

\* the handshake every relay below starts from: 3.8, None, accepted
PlainHandshake ==
    [cver |-> "Rfb38", types |-> <<1>>, wide |-> FALSE, ctype |-> 1, result |-> "ok"]

\* What the client sends once the handshake is over: every SetEncodings,
\* and one or two messages of the other kinds, whole, cut short or unknown.
EncodingRelays ==
    {C2S_write_to([type |-> "SetEncodings", encodings |-> l]) :
        l \in SeqsUpTo(Encodings, MaxList)}

ClientRelays ==
    C2SRecords
    \cup {<<4, 1, 0, 0, 0, 0, 0, 65, 2, 0, 0, 2>> \o I32(5) \o I32(0),
          <<5, 1, 0, 2, 0, 3, 6, 0, 0, 0, 0, 0, 0, 2, 65, 233>>,
          <<9>>,
          <<2, 0, 0>>}

\* What the server sends once the handshake is over: Bell, ServerCutText,
\* SetColourMapEntries and FramebufferUpdate with rectangles of every
\* encoding, whole, cut short or unknown.
ServerRelays ==
    {<<>>, <<2>>, <<2, 9>>, <<3, 0, 0>>,
     <<3, 0, 0, 0, 0, 0, 0, 1, 65>>,
     <<3, 0, 0, 0, 0, 0, 0, 1, 233>>,
     <<1, 0, 0, 1, 0, 1, 0, 1, 0, 2, 0, 3>>,
     <<0, 7, 0, 0, 2>>,
     <<0, 0, 0, 1, 0, 0, 0, 0, 0, 1, 0, 1, 0, 0, 0, 0, 10, 20, 30, 40, 2>>,
     <<0, 0, 0, 2, 0, 0, 0, 0, 0, 2, 0, 1>> \o I32(-223)
        \o <<0, 10, 0, 20, 0, 5, 0, 5, 0, 0, 0, 1, 0, 100, 0, 200>>,
     <<0, 0, 0, 1, 0, 3, 0, 4, 0, 1, 0, 1>> \o I32(-239) \o <<1, 2, 3, 4, 128>>,
     <<0, 0, 0, 1, 0, 0, 0, 0, 0, 1, 0, 1, 0, 0, 0, 16, 0, 0, 0, 1, 7>>,
     <<0, 0, 0, 1, 0, 0, 0, 0, 0, 1, 0, 1, 0, 0, 0, 0, 10>>,
     <<0, 0, 0, 1, 0, 0, 0, 0, 0, 1, 0, 1, 0, 0, 0, 2>>}

ProxyScripts ==
    {[hs |-> h, shared |-> TRUE, init |-> i, c2s |-> <<>>, s2c |-> <<>>,
      cend |-> "eof", send |-> "eof"] : h \in ProxyHandshakes, i \in ServerInits}
    \cup {[hs |-> PlainHandshake, shared |-> FALSE, init |-> i, c2s |-> c, s2c |-> s,
           cend |-> ce, send |-> se] :
            i \in {CHOOSE x \in ServerInits : x.framebuffer_width = 640},
            c \in ClientRelays, s \in ServerRelays, ce \in Ends, se \in Ends}
    \cup {[hs |-> PlainHandshake, shared |-> FALSE, init |-> i, c2s |-> c, s2c |-> <<>>,
           cend |-> ce, send |-> se] :
            i \in {CHOOSE x \in ServerInits : x.framebuffer_width = 640},
            c \in EncodingRelays, ce \in Ends, se \in Ends}

\* what the server sends for the security types, in the form the client's
\* version calls for
offered_bytes(h) ==
    IF h.cver = "Rfb33"
    THEN (IF h.wide THEN <<0, 0, 0>> ELSE <<>>) \o h.types
    ELSE U8(Len(h.types)) \o h.types

\* the server offers nothing the proxy lets through
NothingOffered(h) == \A i \in DOMAIN h.types : h.types[i] # 1

ProxyServerBytes(script) ==
    Version_write_to("Rfb38")
    \o offered_bytes(script.hs)
    \o (IF NothingOffered(script.hs) THEN WireString(Reason) ELSE
        (CASE script.hs.result = "ok" -> U32(0)
           [] script.hs.result = "failed" ->
                U32(1) \o (IF script.hs.cver = "Rfb38" THEN WireString(Reason) ELSE <<>>)
           [] OTHER -> <<>>)
        \o WireServerInit(script.init) \o script.s2c)

ProxyClientBytes(script) ==
    Version_write_to(script.hs.cver)
    \o (IF script.hs.cver = "Rfb33" THEN <<>> ELSE <<script.hs.ctype>>)
    \o U8(Bool(script.shared)) \o script.c2s

ProxyInit ==
    /\ SessionInit
    /\ CodecIdle
    /\ HsIdle
    /\ \E script \in ProxyScripts :
          /\ px = PxStart(script)
          /\ px_srv = Stream(ProxyServerBytes(script), script.send)
          /\ px_cli = Stream(ProxyClientBytes(script), script.cend)

ProxyNext ==
    \/ (PxServerVersion /\ UNCHANGED beside_px)
    \/ (PxClientVersion /\ UNCHANGED beside_px)
    \/ (PxSecurityTypes /\ UNCHANGED beside_px)
    \/ (PxRefused /\ UNCHANGED beside_px)
    \/ (PxUsedType /\ UNCHANGED beside_px)
    \/ (PxSecurityResult /\ UNCHANGED beside_px)
    \/ (PxClientInit /\ UNCHANGED beside_px)
    \/ (PxServerInit /\ UNCHANGED beside_px)
    \/ (PxSpawn /\ UNCHANGED beside_px)
    \/ (PxForwardC2S /\ UNCHANGED beside_px)
    \/ (PxForwardS2C /\ UNCHANGED beside_px)
    \/ (PxJoin /\ UNCHANGED beside_px)

ProxySpec == ProxyInit /\ [][ProxyNext]_vars

(***************************************************************************)
(* Properties of the proxy (ProxySpec).                                    *)
(***************************************************************************)
\* C18: Proxy::join returns success exactly when both directions ended with
\* Disconnected; otherwise it returns an error other than Disconnected that
\* one of the two directions ended with.
C18_JoinResult ==
    (px.pc = "joined" /\ px.join.type = "result") =>
        IF px.c2s_result = Disconnected /\ px.s2c_result = Disconnected
        THEN px.join.result = NoErr
        ELSE /\ px.join.result \in {px.c2s_result, px.s2c_result}
             /\ px.join.result # Disconnected

\* the entries of a list of security type codes that are None (1)
RECURSIVE OnlyNone(_)
OnlyNone(types) ==
    IF types = <<>> THEN <<>>
    ELSE (IF Head(types) = 1 THEN <<1>> ELSE <<>>) \o OnlyNone(Tail(types))

\* the proxy has relayed the server's security types
PastOffer == px.offer # <<>>

\* C19: the proxy advertises None only.  For 3.7 and 3.8 the list written to
\* the client is the server's list restricted to None, in the server's
\* order; for 3.3 the one type written is None when the server's is None and
\* Invalid otherwise.
C19_OnlyNoneOffered ==
    PastOffer =>
        IF px.client_version = "Rfb33"
        THEN /\ px.offer \in {<<0>>, <<1>>}
             /\ ~px.script.hs.wide => (px.offer = <<1>> <=> px.script.hs.types = <<1>>)
        ELSE px.offer = U8(Len(OnlyNone(px.script.hs.types)))
                        \o OnlyNone(px.script.hs.types)

C19_Witness ==
    /\ PastOffer
    /\ px.client_version = "Rfb37"
    /\ px.script.hs.types = <<2, 1>>
    /\ px.offer = <<1, 1>>

\* the encodings of a list that are Raw, CopyRect, ZRLE, Cursor or
\* DesktopSize, in order
Passes(e) == e.name \in {"Raw", "CopyRect", "Zrle", "Cursor", "DesktopSize"}

\* the bytes a list of messages makes on the wire
RECURSIVE WireOf(_)
WireOf(msgs) == IF msgs = <<>> THEN <<>> ELSE C2S_write_to(Head(msgs)) \o WireOf(Tail(msgs))

\* C20: for every SetEncodings the proxy reads from the client, the
\* SetEncodings it writes to the server holds exactly the subsequence of the
\* client's encodings that are Raw, CopyRect, ZRLE, Cursor or DesktopSize,
\* in order; RRE, Hextile, ExtendedKeyEvent and unknown encodings never
\* reach the server.  (The last message read is not written when the thread
\* ends on it.)
C20_EncodingsFiltered ==
    px.pc \in {"relay", "joined"} =>
        /\ Len(px.written) \in {Len(px.read) - 1, Len(px.read)}
        /\ \A i \in DOMAIN px.written :
              px.read[i].type = "SetEncodings" =>
                 /\ px.written[i].type = "SetEncodings"
                 /\ px.written[i].encodings = SelectSeq(px.read[i].encodings, Passes)
        /\ EndsWith(px.to_server, U8(Bool(px.script.shared)) \o WireOf(px.written))

C20_Witness ==
    /\ px.pc = "joined"
    /\ Len(px.written) = 1
    /\ px.read[1] = [type |-> "SetEncodings", encodings |-> <<Enc("Hextile"), Enc("Zrle")>>]
    /\ px.written[1] = [type |-> "SetEncodings", encodings |-> <<Enc("Zrle")>>]
    /\ EndsWith(px.to_server, <<2, 0, 0, 1, 0, 0, 0, 16>>)

\* a SetPixelFormat is among the messages read from the client
ReadSetPixelFormat == \E i \in DOMAIN px.read : px.read[i].type = "SetPixelFormat"

\* C21: when the proxy reads a SetPixelFormat from the client it never
\* writes it to the server, the client-to-server direction stops relaying,
\* and Proxy::join returns an error result to its caller: it neither
\* returns success nor fails to return.
C21_SetPixelFormatFails ==
    ReadSetPixelFormat =>
        /\ px.read[Len(px.read)].type = "SetPixelFormat"
        /\ px.written = SubSeq(px.read, 1, Len(px.read) - 1)
        /\ px.c2s # "running"
        /\ px.pc = "joined" => (px.join.type = "result" /\ px.join.result # NoErr)

\* C22: the bytes the proxy has written to the client since the handshake
\* are exactly the bytes it read from the server for the messages it read
\* completely and passed on, in the same order; a message whose read failed
\* part-way contributed no bytes.
C22_S2CVerbatim ==
    px.pc \in {"relay", "joined"} => px.relayed = px.s2c_in

\* every message of the byte stream, as C2S::read_from decodes them one
\* after the other
RECURSIVE DecodeAll(_)
DecodeAll(bytes) ==
    IF bytes = <<>> THEN <<>> ELSE
    LET r == C2S_read_from(Stream(bytes, "eof")) IN
    IF r.ok THEN <<r.val>> \o DecodeAll(r.rest.buf) ELSE <<[type |-> "undecodable"]>>

\* C23: when the client sends no SetPixelFormat, the byte stream the proxy
\* writes to the server decodes by C2S::read_from to the messages the proxy
\* read from the client, the same but for the filtered lists of
\* SetEncodings; a ClientCutText arrives as a ClientCutText with the same
\* text.
C23_C2SDecodes ==
    (px.pc \in {"relay", "joined"} /\ ~ReadSetPixelFormat) =>
        /\ \A i \in DOMAIN px.written :
              px.written[i] = IF px.read[i].type = "SetEncodings"
                              THEN [px.read[i] EXCEPT
                                       !.encodings = SelectSeq(@, Passes)]
                              ELSE px.read[i]
        /\ DecodeAll(px.forwarded) = px.written

(***************************************************************************)
(* server.rs: the FramebufferUpdate builder and Server::send_update.       *)
(***************************************************************************)
MaxUpdates == 2     \* most updates of a builder drawn from SampleUpdates

\* Rect::new_empty and Rect::write_to: the four u16 fields in wire order
Rect_new_empty == Rect(0, 0, 0, 0)
Rect_write_to(r) == U16(r.left) \o U16(r.top) \o U16(r.width) \o U16(r.height)

\* enum Update
UpRaw(rect, pixel_data) == [kind |-> "Raw", rect |-> rect, pixel_data |-> pixel_data]
UpCopyRect(dst, src_x_position, src_y_position) ==
    [kind |-> "CopyRect", dst |-> dst, src_x_position |-> src_x_position,
     src_y_position |-> src_y_position]
UpZrle(rect, zlib_data) == [kind |-> "Zrle", rect |-> rect, zlib_data |-> zlib_data]
UpSetCursor(sz, hotspot, pixels, mask_bits) ==
    [kind |-> "SetCursor", size |-> sz, hotspot |-> hotspot, pixels |-> pixels,
     mask_bits |-> mask_bits]
UpDesktopSize(width, height) == [kind |-> "DesktopSize", width |-> width, height |-> height]
UpEncoding(encoding) == [kind |-> "Encoding", encoding |-> encoding]

\* ValidationData::new / update: a u16
ValidationData_new(pixel_format) ==
    [bytes_per_pixel |-> ((pixel_format.bits_per_pixel + 7) \div 8) % 65536]

\* mutant: the products are formed in u16 and wrap
Update_check_u16(u, validation_data) ==
    CASE u.kind = "Raw" ->
           (u.rect.width * u.rect.height * validation_data.bytes_per_pixel) % 65536
               = Len(u.pixel_data)
      [] u.kind = "SetCursor" ->
           /\ (u.size[1] * u.size[2] * validation_data.bytes_per_pixel) % 65536
                  = Len(u.pixels)
           /\ (((u.size[1] + 7) \div 8) * u.size[2]) % 65536 = Len(u.mask_bits)
      [] OTHER -> TRUE

\* Update::check: TRUE when it returns, FALSE when it panics.  The products
\* are formed in usize.  A slice the model can hold is shorter than 2^31
\* bytes, so the Zrle comparison with u32::max_value() never panics.
Update_check(u, validation_data) ==
    CASE u.kind = "Raw" ->
           u.rect.width * u.rect.height * validation_data.bytes_per_pixel
               = Len(u.pixel_data)
      [] u.kind = "SetCursor" ->
           /\ u.size[1] * u.size[2] * validation_data.bytes_per_pixel = Len(u.pixels)
           /\ ((u.size[1] + 7) \div 8) * u.size[2] = Len(u.mask_bits)
      [] OTHER -> TRUE

\* Update::write_to
Update_write_to(u) ==
    CASE u.kind = "Raw" ->
           Rect_write_to(u.rect) \o Encoding_write_to(Enc("Raw")) \o u.pixel_data
      [] u.kind = "CopyRect" ->
           Rect_write_to(u.dst) \o Encoding_write_to(Enc("CopyRect"))
               \o U16(u.src_x_position) \o U16(u.src_y_position)
      [] u.kind = "Zrle" ->
           Rect_write_to(u.rect) \o Encoding_write_to(Enc("Zrle"))
               \o U32(Len(u.zlib_data)) \o u.zlib_data
      [] u.kind = "SetCursor" ->
           U16(u.hotspot[1]) \o U16(u.hotspot[2]) \o U16(u.size[1]) \o U16(u.size[2])
               \o Encoding_write_to(Enc("Cursor")) \o u.pixels \o u.mask_bits
      [] u.kind = "DesktopSize" ->
           U16(0) \o U16(0) \o U16(u.width) \o U16(u.height)
               \o Encoding_write_to(Enc("DesktopSize"))
      [] u.kind = "Encoding" ->
           Rect_write_to(Rect_new_empty) \o Encoding_write_to(u.encoding)

\* FramebufferUpdate::check: TRUE when every Update::check returns
FramebufferUpdate_check(updates, validation_data) ==
    \A i \in DOMAIN updates : Update_check(updates[i], validation_data)

\* slice::chunks(size)
chunks(l, chunk_size) ==
    [k \in 1..((Len(l) + chunk_size - 1) \div chunk_size) |->
        SubSeq(l, (k - 1) * chunk_size + 1, Min(k * chunk_size, Len(l)))]

\* mutant: chunks of 65536, whose length does not fit the u16 count
FramebufferUpdate_frames_65536(updates) ==
    LET parts == chunks(updates, 65536) IN
    [k \in DOMAIN parts |-> [count |-> Len(parts[k]) % 65536, updates |-> parts[k]]]

\* FramebufferUpdate::write_to, the messages: one per chunk of
\* u16::max_value() updates, with count = chunk.len() as u16
FramebufferUpdate_frames(updates) ==
    LET parts == chunks(updates, 65535) IN
    [k \in DOMAIN parts |-> [count |-> Len(parts[k]) % 65536, updates |-> parts[k]]]

\* `for update in chunk { update.write_to(writer) }` over chunk[lo..hi]
RECURSIVE write_updates(_, _, _)
write_updates(chunk, lo, hi) ==
    IF lo > hi THEN <<>>
    ELSE IF lo = hi THEN Update_write_to(chunk[lo])
    ELSE write_updates(chunk, lo, (lo + hi) \div 2)
             \o write_updates(chunk, (lo + hi) \div 2 + 1, hi)

\* the bytes of one message
frame_bytes(frame) ==
    S2C_write_to([type |-> "FramebufferUpdate", count |-> frame.count])
        \o write_updates(frame.updates, 1, Len(frame.updates))

RECURSIVE frames_bytes(_)
frames_bytes(frames) ==
    IF frames = <<>> THEN <<>> ELSE frame_bytes(Head(frames)) \o frames_bytes(Tail(frames))

\* FramebufferUpdate::write_to, the bytes
FramebufferUpdate_write_to(updates) == frames_bytes(FramebufferUpdate_frames(updates))

Sent(panicked, frames) == [panicked |-> panicked, frames |-> frames]

\* mutant: each update is checked just before it is written
send_update_check_late(updates, validation_data) ==
    IF FramebufferUpdate_check(updates, validation_data)
    THEN Sent(FALSE, FramebufferUpdate_frames(updates))
    ELSE LET bad == CHOOSE i \in DOMAIN updates :
                        /\ ~Update_check(updates[i], validation_data)
                        /\ \A j \in 1..(i - 1) : Update_check(updates[j], validation_data)
         IN Sent(TRUE, FramebufferUpdate_frames(SubSeq(updates, 1, bad - 1)))

\* Server::send_update: updates.check panics before anything is written
send_update(updates, validation_data) ==
    IF FramebufferUpdate_check(updates, validation_data)
    THEN Sent(FALSE, FramebufferUpdate_frames(updates))
    ELSE Sent(TRUE, <<>>)

(* ---- builders drawn as inputs ---- *)

Format12 == [Format16 EXCEPT !.bits_per_pixel = 12, !.depth = 12]
ServerFormats == {new_rgb8888, Format8, Format16, Format12}

SampleUpdates ==
    {UpRaw(Rect(0, 0, 2, 1), Zeros(8)),
     UpRaw(Rect(1, 2, 2, 1), Zeros(4)),
     UpRaw(Rect(0, 0, 2, 1), <<5, 6>>),
     UpRaw(Rect(0, 0, 8, 8), Zeros(5)),
     UpRaw(Rect(0, 0, 256, 256), <<>>),
     UpRaw(Rect(7, 7, 0, 5), <<>>),
     UpCopyRect(Rect(3, 4, 5, 6), 1, 2),
     UpZrle(Rect(0, 0, 1, 1), <<1, 2, 3>>),
     UpSetCursor(<<1, 1>>, <<0, 0>>, Zeros(4), <<128>>),
     UpSetCursor(<<9, 2>>, <<1, 1>>, Zeros(18), Zeros(4)),
     UpSetCursor(<<1, 1>>, <<0, 0>>, Zeros(4), <<>>),
     UpSetCursor(<<1, 1>>, <<0, 0>>, Zeros(3), <<128>>),
     UpSetCursor(<<2048, 256>>, <<0, 0>>, <<>>, <<>>),
     UpDesktopSize(640, 480),
     UpEncoding(Enc("DesktopSize")),
     UpEncoding(Enc("ExtendedKeyEvent"))}

Builders == SeqsUpTo(SampleUpdates, MaxUpdates)

\* Builders too long to be kept in a state are drawn as what the host does
\* to make them: one Raw update of a rectangle with a buffer of len zero
\* bytes (server.rs's own tests use 800 x 100 at four bytes a pixel), or
\* len calls of add_desktop_size with a different size each.
LargeBuilder(made) ==
    IF made.how = "raw"
    THEN <<UpRaw(Rect(0, 0, made.width, made.height), Zeros(made.len))>>
    ELSE [i \in 1..made.len |-> UpDesktopSize(i % 65536, i \div 65536)]

LargeBuilders ==
    {[how |-> "raw", width |-> 800, height |-> 100, len |-> 320000],
     [how |-> "raw", width |-> 800, height |-> 100, len |-> 57856],
     [how |-> "raw", width |-> 256, height |-> 256, len |-> 0],
     [how |-> "add_desktop_size", width |-> 0, height |-> 0, len |-> 65535],
     [how |-> "add_desktop_size", width |-> 0, height |-> 0, len |-> 65536]}

BuilderInputs ==
    {[op |-> "send_update", msg |-> [updates |-> b, format |-> f], st |-> NoStream] :
        b \in Builders, f \in ServerFormats}
    \cup {[op |-> "send_large_update", msg |-> [made |-> b, format |-> f], st |-> NoStream] :
            b \in LargeBuilders, f \in {new_rgb8888, Format16}}

BuilderInit ==
    SessionInit /\ HsIdle /\ PxIdle /\ codec_in \in BuilderInputs /\ codec_out = NoOutput

\* what is kept of a message written: its count, the number of rectangles
\* written after it, and the first and the last of them
FrameSummary(frame) ==
    [count |-> frame.count, rectangles |-> Len(frame.updates),
     first |-> frame.updates[1], last |-> frame.updates[Len(frame.updates)]]

SendSummary(r) ==
    [panicked |-> r.panicked,
     frames |-> [k \in DOMAIN r.frames |-> FrameSummary(r.frames[k])],
     written |-> Len(frames_bytes(r.frames))]

\* Server::send_update(updates) on a server whose pixel format is format
SendUpdate ==
    /\ codec_in.op = "send_update"
    /\ ~codec_out.done
    /\ LET r == send_update(codec_in.msg.updates, ValidationData_new(codec_in.msg.format)) IN
       codec_out' = Output(frames_bytes(r.frames), SendSummary(r))
    /\ UNCHANGED codec_in

\* the same call on a large builder; the bytes written are not kept
SendLargeUpdate ==
    /\ codec_in.op = "send_large_update"
    /\ ~codec_out.done
    /\ LET r == send_update(LargeBuilder(codec_in.msg.made),
                            ValidationData_new(codec_in.msg.format)) IN
       codec_out' = Output(<<>>, SendSummary(r))
    /\ UNCHANGED codec_in

BuilderNext ==
    \/ (SendUpdate /\ UNCHANGED beside_codec)
    \/ (SendLargeUpdate /\ UNCHANGED beside_codec)

BuilderSpec == BuilderInit /\ [][BuilderNext]_vars

SendDone == codec_in.op \in {"send_update", "send_large_update"} /\ codec_out.done

\* the builder send_update was called with
Built ==
    IF codec_in.op = "send_update" THEN codec_in.msg.updates
    ELSE LargeBuilder(codec_in.msg.made)

\* what the specification says of one update: it is rejected
ShouldPanic(u, bytes_per_pixel) ==
    \/ u.kind = "Raw" /\ Len(u.pixel_data) # u.rect.width * u.rect.height * bytes_per_pixel
    \/ u.kind = "SetCursor" /\ Len(u.pixels) # u.size[1] * u.size[2] * bytes_per_pixel
    \/ u.kind = "SetCursor" /\ Len(u.mask_bits) # ((u.size[1] + 7) \div 8) * u.size[2]

BytesPerPixel == (codec_in.msg.format.bits_per_pixel + 7) \div 8

C25_ChecksBeforeSending ==
    (SendDone /\ \E i \in DOMAIN Built : ShouldPanic(Built[i], BytesPerPixel)) =>
        /\ codec_out.res.panicked
        /\ codec_out.res.written = 0
        /\ codec_out.res.frames = <<>>
        /\ codec_out.bytes = <<>>

\* a valid Raw update followed by an invalid one: panic, nothing written
C25_Witness ==
    /\ codec_in.op = "send_update" /\ codec_out.done
    /\ Len(codec_in.msg.updates) = 2
    /\ codec_in.msg.updates[1].kind = "Raw"
    /\ ~ShouldPanic(codec_in.msg.updates[1], BytesPerPixel)
    /\ ShouldPanic(codec_in.msg.updates[2], BytesPerPixel)
    /\ codec_out.res.panicked
    /\ codec_out.bytes = <<>>

\* bytes that updates[lo..hi] take on the wire
RECURSIVE WireSize(_, _, _)
WireSize(updates, lo, hi) ==
    IF lo > hi THEN 0
    ELSE IF lo = hi THEN Len(Update_write_to(updates[lo]))
    ELSE WireSize(updates, lo, (lo + hi) \div 2) + WireSize(updates, (lo + hi) \div 2 + 1, hi)

\* how many rectangles precede the k-th message written
RECURSIVE FrameFirst(_, _)
FrameFirst(frames, k) ==
    IF k = 1 THEN 0 ELSE FrameFirst(frames, k - 1) + frames[k - 1].rectangles

\* C26: for a builder of n valid updates write_to emits ceil(n/65535)
\* FramebufferUpdate messages back to back; the u16 count of each message is
\* the number of rectangles that follow it and is at most 65535; the
\* rectangles of all the messages, concatenated, are the builder's updates
\* in their original order.
C26_Chunks ==
    (SendDone /\ ~codec_out.res.panicked) =>
        LET frames == codec_out.res.frames IN
        /\ Len(frames) = (Len(Built) + 65534) \div 65535
        /\ \A k \in DOMAIN frames :
              /\ frames[k].count = frames[k].rectangles
              /\ frames[k].count \in 1..65535
              /\ frames[k].first = Built[FrameFirst(frames, k) + 1]
              /\ frames[k].last = Built[FrameFirst(frames, k) + frames[k].rectangles]
        /\ FrameFirst(frames, Len(frames) + 1) = Len(Built)
        /\ codec_out.res.written = 4 * Len(frames) + WireSize(Built, 1, Len(Built))
        /\ codec_in.op = "send_update" =>
              codec_out.bytes =
                  IF Built = <<>> THEN <<>>
                  ELSE <<0, 0>> \o U16(Len(Built)) \o write_updates(Built, 1, Len(Built))

\* 65536 updates went out as a message of 65535 and a message of one
C26_Witness ==
    /\ SendDone /\ ~codec_out.res.panicked
    /\ Len(Built) = 65536
    /\ Len(codec_out.res.frames) = 2
    /\ codec_out.res.frames[1].count = 65535
    /\ codec_out.res.frames[2].count = 1
    /\ codec_out.res.frames[2].first = UpDesktopSize(0, 1)

(***************************************************************************)
(* A session whose server is this crate's Server: framebuffer updates are  *)
(* written by Server::send_update and read by the client's pump.           *)
(***************************************************************************)
ServedUpdates ==
    {UpRaw(Rect(0, 0, 2, 1), Zeros(8)),
     UpRaw(Rect(1, 2, 1, 1), <<1, 2, 3, 4>>),
     UpCopyRect(Rect(3, 4, 5, 6), 1, 2),
     UpZrle(Rect(2, 3, 1, 1), <<1, 2, 3>>),
     UpSetCursor(<<1, 1>>, <<7, 8>>, <<9, 8, 7, 6>>, <<128>>),
     UpDesktopSize(640, 480),
     UpEncoding(Enc("DesktopSize")),
     UpEncoding(Enc("ExtendedKeyEvent")),
     UpEncoding(Enc("Rre")),
     UpEncoding(Enc("Hextile")),
     UpEncoding(EncUnknown(7))}

\* the builders that pass FramebufferUpdate::check for the session's format
ServedBuilders ==
    {b \in SeqsUpTo(ServedUpdates, MaxUpdates) :
        FramebufferUpdate_check(b, ValidationData_new(InitFormat))}

\* Server::send_update(builder) returns Ok: its bytes are on their way to
\* the client
ServeUpdate ==
    /\ s2c.end = "open"
    /\ nsend < MaxSend
    /\ \E b \in ServedBuilders :
          LET r == send_update(b, ValidationData_new(InitFormat)) IN
          /\ ~r.panicked
          /\ s2c' = Stream(s2c.buf \o frames_bytes(r.frames), "open")
          /\ served' = Append(served, b)
    /\ nsend' = nsend + 1
    /\ UNCHANGED <<c2s_wire, conn_wr, format, size, queue, rx_alive, pump, caller, sent, polled>>

ServeInit == SessionInit /\ CodecIdle /\ HsIdle /\ PxIdle

ServeNext ==
    \/ (ServeUpdate /\ UNCHANGED beside_server)
    \/ (ServerClose /\ UNCHANGED beside_session)
    \/ (PumpReadMessage /\ UNCHANGED beside_session)
    \/ (PumpReadRectangle /\ UNCHANGED beside_session)
    \/ (PumpEndOfFrame /\ UNCHANGED beside_session)
    \/ (PumpThreadExit /\ UNCHANGED beside_session)

ServeSpec == ServeInit /\ [][ServeNext]_vars

\* the event that stands for an update record at the client
RecordEvent(u) ==
    CASE u.kind = "Raw" -> <<EvPutPixels(u.rect, u.pixel_data)>>
      [] u.kind = "CopyRect" ->
           <<EvCopyPixels(Rect(u.src_x_position, u.src_y_position, u.dst.width, u.dst.height),
                          u.dst)>>
      [] u.kind = "Zrle" -> zrle_tiles(InitFormat, u.rect)
      [] u.kind = "SetCursor" -> <<EvSetCursor(u.size, u.hotspot, u.pixels, u.mask_bits)>>
      [] u.kind = "DesktopSize" -> <<EvResize(u.width, u.height)>>
      [] u.kind = "Encoding" -> <<>>

RECURSIVE RecordEvents(_)
RecordEvents(updates) ==
    IF updates = <<>> THEN <<>> ELSE RecordEvent(Head(updates)) \o RecordEvents(Tail(updates))

RECURSIVE ServedEvents(_)
ServedEvents(builders) ==
    IF builders = <<>> THEN <<>>
    ELSE RecordEvents(Head(builders)) \o ServedEvents(Tail(builders))

\* the pump has read everything the server wrote and waits for a message
AtBoundary == pump.pc = "message" /\ s2c.buf = <<>>

NotEndOfFrame(e) == e.type # "EndOfFrame"

\* C27: every builder that passes validation, written by send_update, is
\* parsed by the pump without an error; once the pump has read it all it is
\* at a message boundary and has delivered the events that stand for the
\* records, in order.
C27_ServedUpdatesParse ==
    /\ pump.cause \in {NoErr, Disconnected}
    /\ (s2c.buf = <<>> /\ pump.pc = "rectangle") => pump.count = 0
    /\ AtBoundary => SelectSeq(sent, NotEndOfFrame) = ServedEvents(served)

DocumentedEvents ==
    {"Disconnected", "Resize", "PutPixels", "CopyPixels", "SetCursor", "Clipboard",
     "SetColourMap", "Bell"}

\* no builder served holds a Zrle or a pseudo-encoding record
PlainRectangles ==
    \A i \in DOMAIN served : \A j \in DOMAIN served[i] :
        served[i][j].kind \in {"Raw", "CopyRect", "SetCursor", "DesktopSize"}

\* C29: every event the pump delivers is one of Disconnected, Resize,
\* PutPixels, CopyPixels, SetCursor, Clipboard, SetColourMap, Bell, and a
\* FramebufferUpdate of count non-ZRLE rectangles produces exactly count
\* events, one per rectangle in order: PutPixels(rect, pixels) for Raw,
\* CopyPixels(src, dst) for CopyRect, SetCursor for Cursor, Resize for
\* DesktopSize.
C29_EventSurface ==
    /\ \A i \in DOMAIN sent : sent[i].type \in DocumentedEvents
    /\ (AtBoundary /\ PlainRectangles) => sent = ServedEvents(served)

\* a pseudo-encoding record of an encoding the pump does not handle
BadEncoding(u) ==
    /\ u.kind = "Encoding"
    /\ u.encoding.name \notin {"Raw", "CopyRect", "Zrle", "Cursor", "DesktopSize"}

\* what the server wrote, piece by piece: a header, the rectangles and the
\* end of each message
RECURSIVE Pieces(_)
Pieces(builders) ==
    IF builders = <<>> THEN <<>>
    ELSE (IF Head(builders) = <<>> THEN <<>>
          ELSE <<[kind |-> "header"]>> \o Head(builders) \o <<[kind |-> "end"]>>)
         \o Pieces(Tail(builders))

PieceBytes(p) ==
    CASE p.kind = "header" -> 4
      [] p.kind = "end" -> 0
      [] OTHER -> Len(Update_write_to(p))

\* the events the pump delivers for a piece it has read
PieceEvents(p) ==
    CASE p.kind = "header" -> <<>>
      [] p.kind = "end" -> <<EvEndOfFrame>>
      [] p.kind = "Encoding" ->
           IF p.encoding.name = "DesktopSize" THEN <<EvResize(0, 0)>> ELSE <<>>
      [] OTHER -> RecordEvent(p)

RECURSIVE BytesOf(_, _)
BytesOf(pieces, n) == IF n = 0 THEN 0 ELSE BytesOf(pieces, n - 1) + PieceBytes(pieces[n])

RECURSIVE EventsOf(_, _)
EventsOf(pieces, n) ==
    IF n = 0 THEN <<>> ELSE EventsOf(pieces, n - 1) \o PieceEvents(pieces[n])

HasBad(pieces) == \E i \in DOMAIN pieces : BadEncoding(pieces[i])
FirstBad(pieces) ==
    CHOOSE i \in DOMAIN pieces :
        BadEncoding(pieces[i]) /\ \A j \in 1..(i - 1) : ~BadEncoding(pieces[j])

\* bytes the pump has taken from the stream
Consumed == BytesOf(Pieces(served), Len(Pieces(served))) - Len(s2c.buf)

\* C30: a rectangle of an encoding other than Raw, CopyRect, ZRLE, Cursor
\* and DesktopSize makes the pump fail with Unexpected("encoding") as soon
\* as its header is read: the events of the rectangles before it stay
\* delivered, no event is delivered for it or for anything after it, no
\* byte after its header is read, and the last event is
\* Disconnected(Some(Unexpected("encoding"))).
C30_UnknownEncodingFails ==
    HasBad(Pieces(served)) =>
        LET pieces == Pieces(served)
            bad == FirstBad(Pieces(served))
            upto == BytesOf(Pieces(served), FirstBad(Pieces(served)))
        IN /\ Consumed <= upto
           /\ Consumed = upto =>
                 /\ pump.pc \in {"returned", "done"}
                 /\ pump.result = Unexpected("encoding")
           /\ Consumed < upto => pump.pc \in {"message", "rectangle"}
           /\ pump.pc = "returned" => sent = EventsOf(pieces, bad - 1)
           /\ pump.pc = "done" =>
                 sent = EventsOf(pieces, bad - 1)
                            \o <<EvDisconnected(Unexpected("encoding"))>>

\* a Raw rectangle, then one of an unhandled encoding, then a second update:
\* PutPixels was delivered, then the Disconnected, and the second update is
\* still unread
C30_Witness ==
    /\ Len(served) = 2
    /\ Len(served[1]) = 2
    /\ served[1][1].kind = "Raw"
    /\ BadEncoding(served[1][2])
    /\ served[2] # <<>>
    /\ pump.pc = "done"
    /\ sent = <<EvPutPixels(served[1][1].rect, served[1][1].pixel_data),
                EvDisconnected(Unexpected("encoding"))>>
    /\ s2c.buf # <<>>

(***************************************************************************)
(* The pump's Zrle arm over rectangles of many sizes.                      *)
(***************************************************************************)
ZrleRects ==
    {Rect(p[1], p[2], w, h) : p \in {<<0, 0>>, <<10, 7>>},
                              w \in {0, 1, 64, 65, 130}, h \in {1, 64, 65, 129}}

ZrleInputs ==
    {[op |-> "zrle", msg |-> f,
      st |-> Stream(Rect_write_to(r) \o Encoding_write_to(Enc("Zrle"))
                        \o U32(Len(data)) \o data, "eof")] :
        r \in ZrleRects, f \in {Format8, Format16}, data \in {<<>>, <<120, 1>>}}

ZrleInit ==
    SessionInit /\ HsIdle /\ PxIdle /\ codec_in \in ZrleInputs /\ codec_out = NoOutput

\* one iteration of the pump's `for _ in 0..count` over a Zrle rectangle
PumpZrle ==
    /\ codec_in.op = "zrle"
    /\ ~codec_out.done
    /\ codec_out' = Output(<<>>, pump_rectangle(codec_in.st, codec_in.msg))
    /\ UNCHANGED codec_in

ZrleNext == PumpZrle /\ UNCHANGED beside_codec

ZrleSpec == ZrleInit /\ [][ZrleNext]_vars

\* the rectangle of the input's header
ZrleDst == LET b == codec_in.st.buf IN
    Rect(GetU16(SubSeq(b, 1, 2)), GetU16(SubSeq(b, 3, 4)),
         GetU16(SubSeq(b, 5, 6)), GetU16(SubSeq(b, 7, 8)))

Inside(t, r) ==
    /\ r.left <= t.left /\ t.left + t.width <= r.left + r.width
    /\ r.top <= t.top /\ t.top + t.height <= r.top + r.height

Overlap(a, b) ==
    /\ a.left < b.left + b.width /\ b.left < a.left + a.width
    /\ a.top < b.top + b.height /\ b.top < a.top + a.height

RECURSIVE TileArea(_, _)
TileArea(evs, n) ==
    IF n = 0 THEN 0 ELSE TileArea(evs, n - 1) + evs[n].rect.width * evs[n].rect.height

RECURSIVE LastFormat(_, _)
LastFormat(msgs, fmt) ==
    IF msgs = <<>> THEN fmt
    ELSE LastFormat(Tail(msgs),
                    IF Head(msgs).type = "SetPixelFormat" THEN Head(msgs).format ELSE fmt)

\* the pixel format the server encodes in
ServerFormat == LastFormat(DecodeAll(c2s_wire), InitFormat)

\* a full update of the 1 x 1 framebuffer, and an update of two rectangles
FormatBuilders(fmt) ==
    LET n == ValidationData_new(fmt).bytes_per_pixel IN
    {<<UpRaw(Rect(0, 0, 1, 1), Zeros(n))>>,
     <<UpRaw(Rect(0, 0, 1, 1), Zeros(n)), UpRaw(Rect(0, 0, 1, 1), [i \in 1..n |-> 7])>>}

\* Server::send_update of a builder valid for the server's format
FormatServe ==
    /\ s2c.end = "open"
    /\ nsend < MaxSend
    /\ \E b \in FormatBuilders(ServerFormat) :
          LET r == send_update(b, ValidationData_new(ServerFormat)) IN
          /\ ~r.panicked
          /\ s2c' = Stream(s2c.buf \o frames_bytes(r.frames), "open")
          /\ served' = Append(served, b)
    /\ nsend' = nsend + 1
    /\ UNCHANGED <<c2s_wire, conn_wr, format, size, queue, rx_alive, pump, caller, sent, polled>>

FormatInit == SessionInit /\ CodecIdle /\ HsIdle /\ PxIdle

FormatNext ==
    \/ (FormatServe /\ UNCHANGED beside_server)
    \/ (PumpReadMessage /\ UNCHANGED beside_session)
    \/ (PumpReadRectangle /\ UNCHANGED beside_session)
    \/ (PumpEndOfFrame /\ UNCHANGED beside_session)
    \/ (PumpThreadExit /\ UNCHANGED beside_session)
    \/ (CallerPoll /\ UNCHANGED beside_session)
    \/ (SetFormatCall /\ UNCHANGED beside_session)
    \/ (SetFormatDrain /\ UNCHANGED beside_session)
    \/ (SetFormatWait /\ UNCHANGED beside_session)
    \/ (SetFormatWrite /\ UNCHANGED beside_session)
    \/ (SetFormatSwap /\ UNCHANGED beside_session)

FormatSpec == FormatInit /\ [][FormatNext]_vars

\* the number of the FramebufferUpdate the pump is reading the rectangles of
ReadingUpdate == Len(SelectSeq(sent, LAMBDA e : e.type = "EndOfFrame")) + 1

\* the pump is about to read a rectangle
ReadingRectangle == pump.pc = "rectangle" /\ pump.count > 0

\* C31: under every interleaving of set_format and the pump, the pump sizes
\* the rectangles of each FramebufferUpdate with the pixel format the server
\* encoded that update in.
C31_SizedAsEncoded ==
    ReadingRectangle =>
        /\ ReadingUpdate \in DOMAIN served
        /\ pump.format.bits_per_pixel \div 8
               = Len(served[ReadingUpdate][1].pixel_data)

\* C32: the pump reads the shared pixel format once per rectangle: the
\* format it sizes a rectangle with is the value of the shared format when
\* it reads that rectangle's header.
C32_FormatPerRectangle ==
    ReadingRectangle => pump.format = format

(***************************************************************************)
(* The end of a client session: the server's bytes are in flight, the      *)
(* caller polls and then disconnects, and the pump thread is scheduled (a  *)
(* step of the pump thread that can be taken is eventually taken).         *)
(***************************************************************************)
\* What the server has written when the session is looked at: nothing, one
\* chunk, or an update whose header announces a second rectangle that does
\* not come.
InFlight ==
    {<<>>} \cup ServerChunks
    \cup {<<0, 0, 0, 2>> \o SubSeq(c, 5, Len(c)) : c \in {d \in ServerChunks : Len(d) > 16}}

PumpStep ==
    \/ (PumpReadMessage /\ UNCHANGED beside_session)
    \/ (PumpReadRectangle /\ UNCHANGED beside_session)
    \/ (PumpEndOfFrame /\ UNCHANGED beside_session)
    \/ (PumpThreadExit /\ UNCHANGED beside_session)

LiveInit ==
    /\ \E b \in InFlight : s2c = Stream(b, "open")
    /\ c2s_wire = <<>> /\ conn_wr = "ok" /\ format = InitFormat /\ size = InitSize
    /\ queue = <<>> /\ rx_alive = TRUE
    /\ pump = [pc |-> "message", count |-> 0, format |-> InitFormat, result |-> NoErr,
               cause |-> NoErr]
    /\ caller = [pc |-> "idle", arg |-> InitFormat, rect |-> Rect(0, 0, 0, 0), ret |-> NoRet]
    /\ sent = <<>> /\ polled = <<>> /\ nsend = 0 /\ served = <<>>
    /\ CodecIdle /\ HsIdle /\ PxIdle

LiveNext ==
    \/ (ServerClose /\ UNCHANGED beside_session)
    \/ (NetFail /\ UNCHANGED beside_session)
    \/ (CallerPoll /\ UNCHANGED beside_session)
    \/ (Disconnect /\ UNCHANGED beside_session)
    \/ PumpStep

LiveSpec == LiveInit /\ [][LiveNext]_vars /\ WF_vars(PumpStep)

\* Client::disconnect has returned: the socket is shut down and the Client,
\* with its Receiver, is gone
Disconnected_ == caller.pc = "gone" /\ conn_wr = "broken"

\* C33: after Client::disconnect has shut the socket down the pump thread
\* eventually terminates, whatever it was reading and although the event
\* receiver has been dropped; it is never blocked on the event queue.
C33_PumpTerminates == Disconnected_ ~> (pump.pc = "done")

\* the socket was shut down while the pump waited inside a record: the read
\* returned, and the thread has ended with the error of that read
C33_Witness ==
    /\ Disconnected_
    /\ pump.pc = "done"
    /\ pump.result = Io("UnexpectedEof")
    /\ s2c.end = "eof"
    /\ sent # <<>>

(***************************************************************************)
(* The client handshake against servers whose ServerInit carries any       *)
(* bits-per-pixel byte: PixelFormat::read_from stores the byte it reads.    *)
(***************************************************************************)
InitBitsPerPixel == {0, 8, 12, 24, 32, 33}

AcceptScripts ==
    {[s EXCEPT !.init = [s.init EXCEPT !.pixel_format = [Format16 EXCEPT !.bits_per_pixel = b]]] :
        s \in {t \in Scripts : t.init.framebuffer_width = 1}, b \in InitBitsPerPixel}

AcceptInit ==
    /\ SessionInit
    /\ CodecIdle
    /\ PxIdle
    /\ \E script \in AcceptScripts, shared \in BOOLEAN :
          /\ hs = HsStart("echo", shared)
          /\ hs_in = Stream(ScriptBytes(script), "eof")
          /\ srv = [mode |-> "script", script |-> script]
          /\ srv_in = Stream(<<>>, "open")

AcceptSpec == AcceptInit /\ [][HandshakeNext]_vars

\* Client::from_tcp_stream has read ServerInit and goes on to return Ok
Negotiated == hs.pc \in {"spawn", "ok"}

\* C34: the pixel format of a client session, as negotiated by a handshake
\* that succeeded, has 8, 16 or 32 bits per pixel.
C34_BitsPerPixel == Negotiated => hs.format.bits_per_pixel \in {8, 16, 32}

(***************************************************************************)
(* server.rs, Server after from_tcp_stream: the client writes messages,    *)
(* the application calls read_event and send_update in any order.          *)
(***************************************************************************)
MaxEvents == 2      \* messages the client writes

\* mutant: SetPixelFormat is reported and the validation data left alone
Server_read_event_keeps(package, validation_data) ==
    [event |-> package, validation_data |-> validation_data]

\* match package { .. } of Server::read_event: the event returned and the
\* validation data afterwards
Server_read_event(package, validation_data) ==
    CASE package.type = "SetPixelFormat" ->
            [event |-> package, validation_data |-> ValidationData_new(package.format)]
      [] package.type = "FramebufferUpdateRequest" ->
            [event |-> [type |-> "FramebufferUpdateRequest",
                        incremental |-> package.incremental,
                        rect |-> Rect(package.x_position, package.y_position,
                                      package.width, package.height)],
             validation_data |-> validation_data]
      [] OTHER -> [event |-> package, validation_data |-> validation_data]

EventBits == {8, 23, 24, 25, 32, 33}
EventFormat(b) == [Format16 EXCEPT !.bits_per_pixel = b]

ClientMessages ==
    {[type |-> "SetPixelFormat", format |-> EventFormat(b)] : b \in EventBits}
    \cup {[type |-> "SetEncodings", encodings |-> <<Enc("Raw")>>],
          full_update_request(<<2, 2>>),
          [type |-> "KeyEvent", down |-> TRUE, key |-> 65],
          [type |-> "PointerEvent", button_mask |-> 1, x_position |-> 2, y_position |-> 3],
          [type |-> "CutText", text |-> <<65>>]}

\* one pixel, of one to five bytes
PixelUpdates == {<<UpRaw(Rect(0, 0, 1, 1), Zeros(n))>> : n \in 1..5}

NoSend == [bytes |-> 0, panicked |-> FALSE, after |-> 0]

EventInit ==
    /\ SessionInit
    /\ CodecIdle
    /\ PxIdle
    /\ hs = NoVal
    /\ hs_in = NoStream
    /\ \E b \in {23, 32} :
          srv = [mode |-> "events", pc |-> "running", pixel_format |-> EventFormat(b),
                 validation_data |-> ValidationData_new(EventFormat(b)),
                 written |-> 0, events |-> <<>>, err |-> NoErr, last |-> NoSend]
    /\ srv_in = Stream(<<>>, "open")

\* the client writes a message
EventClientWrites ==
    /\ srv.pc = "running"
    /\ srv_in.end = "open"
    /\ srv.written < MaxEvents
    /\ \E m \in ClientMessages : srv_in' = Stream(srv_in.buf \o C2S_write_to(m), "open")
    /\ srv' = [srv EXCEPT !.written = @ + 1]
    /\ UNCHANGED <<s2c, nsend, served>>

\* the client closes the connection
EventClientCloses ==
    /\ srv.pc = "running"
    /\ srv_in.end = "open"
    /\ srv_in' = Stream(srv_in.buf, "eof")
    /\ UNCHANGED <<srv, s2c, nsend, served>>

\* Server::read_event
ServerReadEvent ==
    /\ srv.pc = "running"
    /\ LET r == C2S_read_from(srv_in) IN
       /\ r.err # WouldBlock
       /\ srv_in' = r.rest
       /\ srv' = IF r.ok
                 THEN LET e == Server_read_event(r.val, srv.validation_data) IN
                      [srv EXCEPT !.events = Append(@, e.event),
                                  !.validation_data = e.validation_data, !.err = NoErr]
                 ELSE [srv EXCEPT !.err = r.err]
    /\ UNCHANGED <<s2c, nsend, served>>

\* Server::send_update: a builder that fails the check panics
ServerSendUpdate ==
    /\ srv.pc = "running"
    /\ nsend < MaxSend
    /\ \E b \in PixelUpdates :
          LET r == send_update(b, srv.validation_data) IN
          /\ srv' = [srv EXCEPT !.pc = IF r.panicked THEN "panicked" ELSE @,
                                !.last = [bytes |-> Len(b[1].pixel_data),
                                          panicked |-> r.panicked,
                                          after |-> Len(srv.events)]]
          /\ s2c' = Stream(s2c.buf \o frames_bytes(r.frames), s2c.end)
          /\ served' = IF r.panicked THEN served ELSE Append(served, b)
    /\ nsend' = nsend + 1
    /\ UNCHANGED srv_in

beside_events ==
    <<c2s_wire, conn_wr, format, size, queue, rx_alive, pump, caller, sent, polled, hs, hs_in,
      codec_vars, px_vars>>

EventNext ==
    \/ (EventClientWrites /\ UNCHANGED beside_events)
    \/ (EventClientCloses /\ UNCHANGED beside_events)
    \/ (ServerReadEvent /\ UNCHANGED beside_events)
    \/ (ServerSendUpdate /\ UNCHANGED beside_events)

EventSpec == EventInit /\ [][EventNext]_vars

\* the whole bytes that hold b bits
CeilBytes(b) == CHOOSE n \in 0..32 : 8 * n >= b /\ 8 * n < b + 8

\* the format of the last SetPixelFormat among the first n events read_event
\* returned, or the one given to from_tcp_stream
EventFormatAfter(n) == LastFormat(SubSeq(srv.events, 1, n), srv.pixel_format)

\* C35: the bytes per pixel that send_update validates against are the
\* bits per pixel of the most recent SetPixelFormat event returned by
\* read_event (of the format given to from_tcp_stream when there is none)
\* rounded up to whole bytes; no other event and no send changes them.
C35_ValidationFollowsFormat ==
    /\ srv.validation_data.bytes_per_pixel
          = CeilBytes(EventFormatAfter(Len(srv.events)).bits_per_pixel)
    /\ srv.last # NoSend =>
          (srv.last.panicked
             <=> srv.last.bytes # CeilBytes(EventFormatAfter(srv.last.after).bits_per_pixel))
    /\ srv.pc = "panicked" <=> srv.last.panicked

\* a 23-bit session: after SetPixelFormat(33 bits) and a KeyEvent were
\* returned a five-byte pixel is sent
C35_Witness ==
    /\ srv.pixel_format.bits_per_pixel = 23
    /\ Len(srv.events) = 2
    /\ srv.events[1] = [type |-> "SetPixelFormat", format |-> EventFormat(33)]
    /\ srv.events[2].type = "KeyEvent"
    /\ srv.last = [bytes |-> 5, panicked |-> FALSE, after |-> 2]
    /\ srv.validation_data.bytes_per_pixel = 5

\* the proxy has written a security type to the server: the byte after the
\* twelve of the version, for a client of 3.7 or 3.8
ForwardedType ==
    /\ px.client_version \in {"Rfb37", "Rfb38"}
    /\ Len(px.to_server) > Len(Version_write_to(px.client_version))

\* C36: for 3.7 and 3.8 the security type the proxy forwards to the server
\* is one of the types it advertised to the client (hence None); the answer
\* of a client that picks a type outside the list is not relayed.
C36_ForwardedWasAdvertised ==
    ForwardedType =>
        \E i \in DOMAIN px.security_types :
            SecurityType_write_to(px.security_types[i])
                = <<px.to_server[Len(Version_write_to(px.client_version)) + 1]>>

(***************************************************************************)
(* lib.rs, Proxy::from_tcp_streams against a server that follows the RFB   *)
(* handshake of 3.7 and 3.8: it offers its security types and then waits   *)
(* for the client's choice; only a server that refuses (an empty list)     *)
(* sends a reason and closes.  A read of the proxy blocks while the bytes  *)
(* it needs have not been sent.                                            *)
(***************************************************************************)
Challenge == [i \in 1..16 |-> i]

OfferHandshakes == {h \in ProxyHandshakes : h.cver # "Rfb33"}

OfferScripts ==
    {[hs |-> h, shared |-> TRUE, init |-> i, c2s |-> <<>>, s2c |-> <<>>,
      cend |-> "eof", send |-> "open"] : h \in OfferHandshakes, i \in ServerInits}

OfferServerBytes(script) ==
    Version_write_to("Rfb38") \o offered_bytes(script.hs)
    \o (IF script.hs.types = <<>> THEN WireString(Reason) ELSE <<>>)

OfferInit ==
    /\ SessionInit
    /\ CodecIdle
    /\ hs = NoVal
    /\ hs_in = NoStream
    /\ srv_in = NoStream
    /\ \E script \in OfferScripts :
          /\ px = PxStart(script)
          /\ px_srv = Stream(OfferServerBytes(script),
                             IF script.hs.types = <<>> THEN "eof" ELSE "open")
          /\ px_cli = Stream(ProxyClientBytes(script), "eof")
          /\ srv = [mode |-> "offer",
                    pc |-> IF script.hs.types = <<>> THEN "closed" ELSE "await_type"]

\* what the proxy has written to the server after the version
ToServer == SubSeq(px.to_server, Len(Version_write_to("Rfb38")) + 1, Len(px.to_server))

ServerSays(bytes, end, pc) ==
    /\ px_srv' = Stream(px_srv.buf \o bytes, end)
    /\ srv' = [srv EXCEPT !.pc = pc]
    /\ UNCHANGED <<px, px_cli>>

\* the server has received the security type: None is accepted (with a
\* SecurityResult for 3.8), VncAuthentication is answered with the
\* challenge, a type it did not offer fails the handshake
OfferServerType ==
    /\ srv.pc = "await_type"
    /\ Len(ToServer) > 0
    /\ LET h == px.script.hs
           t == ToServer[1]
       IN CASE \A i \in DOMAIN h.types : h.types[i] # t ->
                   ServerSays(U32(1) \o (IF h.cver = "Rfb38" THEN WireString(Reason)
                                         ELSE <<>>), "eof", "closed")
            [] OTHER ->
                   IF t = 1
                   THEN ServerSays(IF h.cver = "Rfb38" THEN U32(0) ELSE <<>>, "open",
                                   "await_init")
                   ELSE ServerSays(Challenge, "open", "await_response")

\* the server has received ClientInit: it sends ServerInit
OfferServerInit ==
    /\ srv.pc = "await_init"
    /\ Len(ToServer) > 1
    /\ ServerSays(WireServerInit(px.script.init), "open", "running")

\* the proxy's reads from the server block until the bytes are there
OfferRefused == String_read_from(px_srv).err # WouldBlock /\ PxRefused /\ UNCHANGED srv

OfferSecurityResult ==
    /\ \/ proxy_skip_security_result(px.used_security_type, px.client_version)
       \/ proxy_security_result(px.client_version, px_srv).err # WouldBlock
    /\ PxSecurityResult
    /\ UNCHANGED srv

OfferServerInitRead ==
    ServerInit_read_from(px_srv).err # WouldBlock /\ PxServerInit /\ UNCHANGED srv

beside_offer == <<codec_vars, session_vars, server_vars, hs, hs_in, srv_in>>

OfferNext ==
    \/ (PxServerVersion /\ UNCHANGED srv /\ UNCHANGED beside_offer)
    \/ (PxClientVersion /\ UNCHANGED srv /\ UNCHANGED beside_offer)
    \/ (PxSecurityTypes /\ UNCHANGED srv /\ UNCHANGED beside_offer)
    \/ (OfferRefused /\ UNCHANGED beside_offer)
    \/ (PxUsedType /\ UNCHANGED srv /\ UNCHANGED beside_offer)
    \/ (OfferSecurityResult /\ UNCHANGED beside_offer)
    \/ (PxClientInit /\ UNCHANGED srv /\ UNCHANGED beside_offer)
    \/ (OfferServerInitRead /\ UNCHANGED beside_offer)
    \/ (PxSpawn /\ UNCHANGED srv /\ UNCHANGED beside_offer)
    \/ (OfferServerType /\ UNCHANGED beside_offer)
    \/ (OfferServerInit /\ UNCHANGED beside_offer)

OfferSpec == OfferInit /\ [][OfferNext]_vars

\* the proxy is blocked reading the reason from a server that waits for the
\* client's choice of security type, which the proxy has not forwarded:
\* neither of the two can take a step
WaitsForReason ==
    /\ px.pc = "refused"
    /\ srv.pc = "await_type"
    /\ ToServer = <<>>
    /\ String_read_from(px_srv).err = WouldBlock

\* C37: against a server that follows the handshake Proxy::from_tcp_streams
\* returns: the proxy is never left waiting for a reason string that a
\* server which offered security types (none of them None) will not send.
C37_NoWaitForReason == ~WaitsForReason

\* the server offered (for 3.3: dictated) the security type of the choice
Offered(choice) ==
    \E i \in DOMAIN hs.security_types : hs.security_types[i] = used_security_type(choice)

\* C38: the authentication exchange of Client::from_tcp_stream is the one
\* the server expects: the security type written (3.7, 3.8), the exchange
\* made and the decision to read SecurityResult belong to a type of the
\* server's list (3.3: to the type it dictated); a choice of the caller that
\* was not offered fails the handshake before anything is written or read
\* for it.
C38_AuthMatchesOffer ==
    (hs.auth_choice \in AuthChoices /\ ~Offered(hs.auth_choice)) =>
        /\ hs.pc # "ok"
        /\ ~InLog("write SecurityType")
        /\ ~InLog("read challenge")
        /\ ~InLog("read SecurityResult")

\* the step the pump is about to take sends an event: a message other than
\* FramebufferUpdate or the end of the stream was read, a rectangle with
\* events was read, or the for loop is over
SendAttempt ==
    \/ /\ pump.pc = "message"
       /\ LET r == S2C_read_from(s2c) IN
          \/ r.ok /\ r.val.type # "FramebufferUpdate"
          \/ r.err = Disconnected
    \/ /\ pump.pc = "rectangle" /\ pump.count > 0
       /\ LET r == pump_rectangle(s2c, pump.format) IN r.ok /\ r.val.events # <<>>
    \/ pump.pc = "rectangle" /\ pump.count = 0

\* the pump reads no more: it is past the for loop, Event::pump has returned
\* Ok, or the thread has ended
Stopped ==
    \/ pump.pc = "rectangle" /\ pump.count = 0
    \/ pump.pc \in {"returned", "done"} /\ pump.result = NoErr

\* C39: once the receiver is dropped the first send of the pump fails, and
\* from then on the pump takes no byte from the stream and goes on to the
\* end of its thread without an error or a panic, wherever in a message or
\* in an update of several rectangles the send was.
C39_FailedSendStops ==
    [][/\ (~rx_alive /\ SendAttempt /\ pump' # pump) => Stopped'
       /\ (~rx_alive /\ Stopped) =>
             /\ Stopped'
             /\ Len(s2c'.buf) >= Len(s2c.buf)
             /\ pump' # pump => pump'.pc \in {"returned", "done"}
             /\ queue' = queue /\ sent' = sent]_vars

\* the Client was dropped with the connection open, the first rectangle of
\* an update of two was read, its send failed, and the thread has ended with
\* the second rectangle unread
C39_Witness ==
    /\ caller.pc = "gone"
    /\ s2c.end = "open"
    /\ conn_wr = "ok"
    /\ pump.pc = "done"
    /\ pump.result = NoErr
    /\ pump.cause = NoErr
    /\ s2c.buf = <<0, 10, 0, 20, 0, 5, 0, 5, 0, 0, 0, 1, 0, 100, 0, 200>>
    /\ sent = <<>>

(***************************************************************************)
(* lib.rs, the proxy session after Proxy::from_tcp_streams returned Ok:    *)
(* the two peers write or go away at any time, a read of a relay thread    *)
(* blocks while its stream is open and holds no whole record, the two      *)
(* threads are scheduled and the application has called join.              *)
(***************************************************************************)
\* what the client writes in one go: a KeyEvent, an unknown tag, the start
\* of a ClientCutText
RelayClientChunks == {<<4, 1, 0, 0, 0, 0, 0, 65>>, <<9>>, <<6, 0, 0>>}
\* what the server writes in one go: a Bell, an unknown tag, the start of a
\* ServerCutText
RelayServerChunks == {<<2>>, <<9>>, <<3, 0, 0>>}

RelayInit ==
    /\ SessionInit
    /\ CodecIdle
    /\ HsIdle
    /\ px = [PxStart([hs |-> PlainHandshake, shared |-> FALSE,
                      init |-> CHOOSE x \in ServerInits : x.framebuffer_width = 640,
                      c2s |-> <<>>, s2c |-> <<>>, cend |-> "open", send |-> "open"])
                EXCEPT !.pc = "relay", !.c2s = "running", !.s2c = "running"]
    /\ px_srv = Stream(<<>>, "open")
    /\ px_cli = Stream(<<>>, "open")

\* a peer writes: the bytes can be read by the proxy
RelayClientWrites ==
    /\ px_cli.end = "open"
    /\ nsend < MaxSend
    /\ \E c \in RelayClientChunks : px_cli' = Stream(px_cli.buf \o c, "open")
    /\ nsend' = nsend + 1
    /\ UNCHANGED <<px, px_srv>>

RelayServerWrites ==
    /\ px_srv.end = "open"
    /\ nsend < MaxSend
    /\ \E c \in RelayServerChunks : px_srv' = Stream(px_srv.buf \o c, "open")
    /\ nsend' = nsend + 1
    /\ UNCHANGED <<px, px_cli>>

\* a peer closes its connection, or the connection fails
RelayClientEnds ==
    /\ px_cli.end = "open"
    /\ \E e \in Ends : px_cli' = Stream(px_cli.buf, e)
    /\ UNCHANGED <<px, px_srv, nsend>>

RelayServerEnds ==
    /\ px_srv.end = "open"
    /\ \E e \in Ends : px_srv' = Stream(px_srv.buf, e)
    /\ UNCHANGED <<px, px_cli, nsend>>

\* a turn of a relay thread once its blocking read has returned
RelayC2S == C2S_read_from(px_cli).err # WouldBlock /\ PxForwardC2S /\ UNCHANGED nsend
RelayS2C ==
    forward_s2c_message(px_srv, px.format).err # WouldBlock /\ PxForwardS2C /\ UNCHANGED nsend
RelayJoin == PxJoin /\ UNCHANGED nsend

beside_relay ==
    <<codec_vars, hs_vars, server_vars, s2c, c2s_wire, conn_wr, format, size, queue, rx_alive,
      pump, caller, sent, polled>>

RelayNext ==
    \/ (RelayClientWrites /\ UNCHANGED beside_relay)
    \/ (RelayServerWrites /\ UNCHANGED beside_relay)
    \/ (RelayClientEnds /\ UNCHANGED beside_relay)
    \/ (RelayServerEnds /\ UNCHANGED beside_relay)
    \/ (RelayC2S /\ UNCHANGED beside_relay)
    \/ (RelayS2C /\ UNCHANGED beside_relay)
    \/ (RelayJoin /\ UNCHANGED beside_relay)

RelaySpec ==
    /\ RelayInit
    /\ [][RelayNext]_vars
    /\ WF_vars(RelayC2S /\ UNCHANGED beside_relay)
    /\ WF_vars(RelayS2C /\ UNCHANGED beside_relay)
    /\ WF_vars(RelayJoin /\ UNCHANGED beside_relay)

\* one direction has ended with the error its loop returned
DirectionEnded == px.pc = "relay" /\ (px.c2s = "done" \/ px.s2c = "done")

====
